---- MODULE Spec2Model ----
(***************************************************************************)
(* Credential manager client (durian-web): the account table's query /     *)
(* cache / mutation handlers.                                              *)
(*                                                                         *)
(* Two generations of the DataTable component are modelled side by side:   *)
(*   variant = "tauri" : unnamed/part_007 + src/libs/tauri.ts + part_010   *)
(*                       (the native backend pulls and caches)             *)
(*   variant = "api"   : unnamed/part_005 + src/libs/api.ts + part_009     *)
(*                       (the component pulls over HTTP and writes the     *)
(*                        cache through saveQueryCache)                    *)
(* Every `await` of a handler that waits for a command or a request is one *)
(* step, so handlers interleave exactly at their suspension points.  The   *)
(* generations that talk to the remote side through axios,                 *)
(* unnamed/part_008 (variant = "local", with the cache) and                *)
(* unnamed/part_006 (variant = "axios", without it), are followed in       *)
(* WatermarkSpec: their mount effect, Refresh button, search box, edit,    *)
(* cancel, save, handleDelete and handleQuery.                             *)
(***************************************************************************)
EXTENDS Integers, Sequences, FiniteSets, TLC

VARIABLES
    variant,       \* which generation of the component is running
    locale,        \* the default locale of the runtime (localeCompare's)
    cache,         \* the backend's persisted snapshot (NoCache when absent)
    data,          \* DataTable state `data`
    filteredData,  \* DataTable state `filteredData` (the table's dataSource)
    loading,       \* DataTable state `loading`
    saving,        \* DataTable state `saving`
    deleting,      \* DataTable state `deleting`
    editingKey,    \* DataTable state `editingKey`
    queryKeyword,  \* DataTable state `queryKeyword` (the search box)
    debouncedKeyword, \* useDebounce state `debouncedValue`
    timer,         \* the pending setTimeout of useDebounce (NoTimer when none)
    auth,          \* AuthProvider state: user, error, isLoading
    loginTask,     \* the login and checkAuth calls of AuthProvider in flight;
                   \* history: the login that returned last and the function
                   \* of the context called last
    hasInitialized,\* DataTable ref `hasInitialized`: the mount effect has run
    frames,        \* one activation record per handleQuery call in flight
    saveTask,      \* activation record of save
    deleteTask,    \* activation record of handleDelete
    insertTask,    \* activation record of InsertForm.handleSubmit
    lastQuery,     \* history: how the handleQuery call ended that returned last
                   \* since the latest user action
    ops            \* history: number of user actions so far

vars == <<variant, locale, cache, data, filteredData, loading, saving, deleting,
          editingKey, queryKeyword, debouncedKeyword, timer, auth, loginTask,
          hasInitialized, frames, saveTask, deleteTask, insertTask, lastQuery, ops>>

----------------------------------------------------------------------------
(* Bounds of the model *)

\* largest update_time (watermark) the remote side answers with
MaxTime == 2
\* number of user actions (mount, query, edit, save, delete, insert,
\* keystroke) in one run.  Spec and WatermarkSpec spend the first one on the
\* mount; EditSpec starts at the table the mount has shown, so that a third
\* action can be tried while a save or a delete of two actions is running
MaxOps == 3
\* longest record list handed to decryptAccounts on its own
MaxAccounts == 2
MaxRows == 3

----------------------------------------------------------------------------
(* Data *)

Variants == {"tauri", "api"}

\* the default locales the webview can run under: one that collates Latin
\* letters before Han characters and one that collates Han first
Locales == {"en-US", "zh-CN"}

\* the user of the session: the name the backend was given at login, under
\* which it keeps this session's snapshot
Username == "alice"

\* another user of the same installation, logged in before this session
OtherUser == "bob"

\* A website, an account in the search tests and a keyword are sequences of
\* character codes: the blank, "a", "b", the Han character "ba" (spelled
\* "ba", initial "b"), a character the transliteration fails on, and "B".
Space == 0
LatinA == 1
LatinB == 2
HanBa == 3
Broken == 4
UpperB == 12

Ciphertexts == {"ENC1", "ENC2"}

\* the passwords a user types into a form
Plaintexts == {"p1", "p2"}

\* what the crypto boundary's encrypt yields for each plaintext
Cipher(p) == IF p = "p1" THEN "ENC1" ELSE "ENC2"

\* what the crypto boundary's decrypt yields for each ciphertext
Plain(c) == IF c = "ENC1" THEN "p1" ELSE "p2"

Rec1 == [rid |-> 1, website |-> <<2>>, account |-> <<LatinA>>, password |-> "ENC1"]
Rec2 == [rid |-> 2, website |-> <<Space, 1>>, account |-> <<LatinA, LatinB>>,
         password |-> "ENC2"]

\* a record that belongs to the other user
RecB == [rid |-> 3, website |-> <<1>>, account |-> <<LatinB>>, password |-> "ENC2"]

\* the record lists the remote side may answer with
Snapshots == {<<>>, <<Rec1>>, <<Rec1, Rec2>>}

NoCache == [present |-> FALSE, username |-> "", update_time |-> 0, accounts |-> <<>>]

Snapshot(u, t, accs) ==
    [present |-> TRUE, username |-> u, update_time |-> t, accounts |-> accs]

\* the value null of user, of error and of a user name that was not obtained
Null == "null"

\* the records the store of generation v keeps of the pulled list accs when
\* they were handed over with the user name u: as pulled by the backend of
\* part_007 itself, with the name in every record otherwise
persisted(v, accs, u) ==
    IF v = "tauri" THEN accs
    ELSE [i \in 1..Len(accs) |->
            [rid |-> accs[i].rid, website |-> accs[i].website,
             account |-> accs[i].account, password |-> accs[i].password,
             username |-> u]]

\* what an earlier session of the same user and generation can have left in
\* the cache; part_008 hands "" over as the name of every record, part_005
\* the answer of getUsername
PersistedSnapshots(v) ==
    {Snapshot(Username, t, persisted(v, accs, IF v = "local" THEN "" ELSE Username)) :
        t \in 1..MaxTime, accs \in Snapshots}

\* what a session of the other user can have left in the cache
ForeignSnapshot == Snapshot(OtherUser, 1, <<RecB>>)

----------------------------------------------------------------------------
(* Pure helpers of the projection and of the table *)

RECURSIVE TrimStart(_)
TrimStart(w) ==
    IF w # <<>> /\ Head(w) = Space THEN TrimStart(Tail(w)) ELSE w

RECURSIVE TrimEnd(_)
TrimEnd(w) ==
    IF w # <<>> /\ w[Len(w)] = Space THEN TrimEnd(SubSeq(w, 1, Len(w) - 1)) ELSE w

\* String.prototype.trim
Trim(w) == TrimEnd(TrimStart(w))

\* String.prototype.toLowerCase
Lower(c) == IF c = UpperB THEN LatinB ELSE c
toLowerCase(w) == [i \in 1..Len(w) |-> Lower(w[i])]

\* String.prototype.includes
includes(w, k) ==
    \E i \in 0..(Len(w) - Len(k)) : SubSeq(w, i + 1, i + Len(k)) = k

\* lexicographic order of code sequences
RECURSIVE LexLeq(_, _)
LexLeq(a, b) ==
    IF a = <<>> THEN TRUE
    ELSE IF b = <<>> THEN FALSE
    ELSE IF Head(a) # Head(b) THEN Head(a) < Head(b)
    ELSE LexLeq(Tail(a), Tail(b))

\* the primary collation weight of a character under the locale l: the
\* blank first; then "a" < "b" < Han under en-US and Han < "a" < "b" under
\* zh-CN; upper and lower case share a weight
CollationWeight(c, l) ==
    IF Lower(c) = Space THEN 0
    ELSE IF Lower(c) = HanBa THEN (IF l = "zh-CN" THEN 1 ELSE 3)
    ELSE IF Lower(c) = LatinA THEN (IF l = "zh-CN" THEN 2 ELSE 1)
    ELSE IF Lower(c) = LatinB THEN (IF l = "zh-CN" THEN 3 ELSE 2)
    ELSE 4

CollationKey(w, l) == [i \in 1..Len(w) |-> CollationWeight(w[i], l)]

\* a.localeCompare(b) <= 0 under the runtime's default locale: the primary
\* weights decide; between strings with the same weights lower case comes
\* first
LocaleLeq(a, b) ==
    IF CollationKey(a, locale) # CollationKey(b, locale)
    THEN LexLeq(CollationKey(a, locale), CollationKey(b, locale))
    ELSE LexLeq(a, b)

\* insert row r into the sorted list s behind every row that is <= r (stable)
RECURSIVE InsertSorted(_, _)
InsertSorted(r, s) ==
    IF s = <<>> THEN <<r>>
    ELSE IF LocaleLeq(Head(s).website, r.website)
         THEN <<Head(s)>> \o InsertSorted(r, Tail(s))
         ELSE <<r>> \o s

\* [...rows].sort((a, b) => a.website.localeCompare(b.website))
RECURSIVE SortByWebsite(_)
SortByWebsite(rows) ==
    IF rows = <<>> THEN <<>>
    ELSE InsertSorted(rows[Len(rows)], SortByWebsite(SubSeq(rows, 1, Len(rows) - 1)))

\* pinyin(website, {toneType: "none", type: "array"}): one entry per
\* character, a Han character spelled out, any other character as it is
pinyinArray(w) ==
    [i \in 1..Len(w) |-> IF w[i] = HanBa THEN <<LatinB, LatinA>> ELSE <<w[i]>>]

\* pinyin(website, {pattern: "initial", toneType: "none", type: "array"})
pinyinInitialArray(w) ==
    [i \in 1..Len(w) |-> IF w[i] = HanBa THEN <<LatinB>> ELSE <<w[i]>>]

\* the pinyin call throws on this website
pinyinThrows(w) == \E i \in 1..Len(w) : w[i] = Broken

\* Array.prototype.join
RECURSIVE join(_, _)
join(parts, sep) ==
    IF parts = <<>> THEN <<>>
    ELSE IF Len(parts) = 1 THEN parts[1]
    ELSE parts[1] \o sep \o join(Tail(parts), sep)

\* the three strings handleSearch derives from a website
websitePinyin(w) == join(pinyinArray(w), <<>>)
websitePinyinWithSpace(w) == join(pinyinArray(w), <<Space>>)
pinyinInitials(w) == join(pinyinInitialArray(w), <<>>)

\* a filter callback that also looks for the keyword in the account
matchesAccountToo(item, lowerKeyword) ==
    \/ includes(toLowerCase(item.website), lowerKeyword)
    \/ includes(toLowerCase(item.account), lowerKeyword)

\* handleSearch, the callback of sourceData.filter: the keyword is in the
\* website, or in its transliteration joined without or with blanks, or in
\* its initials; a throwing pinyin call is caught and matches nothing
matches(item, lowerKeyword) ==
    \/ includes(toLowerCase(item.website), lowerKeyword)
    \/ /\ ~pinyinThrows(item.website)
       /\ \/ includes(toLowerCase(websitePinyin(item.website)), lowerKeyword)
          \/ includes(toLowerCase(websitePinyinWithSpace(item.website)), lowerKeyword)
          \/ includes(toLowerCase(pinyinInitials(item.website)), lowerKeyword)

\* a filter that gives up at the first row whose transliteration throws
RECURSIVE filterRowsAbortOnThrow(_, _)
filterRowsAbortOnThrow(rows, lowerKeyword) ==
    IF rows = <<>> THEN <<>>
    ELSE IF includes(toLowerCase(Head(rows).website), lowerKeyword)
         THEN <<Head(rows)>> \o filterRowsAbortOnThrow(Tail(rows), lowerKeyword)
    ELSE IF pinyinThrows(Head(rows).website) THEN <<>>
    ELSE (IF matches(Head(rows), lowerKeyword) THEN <<Head(rows)>> ELSE <<>>)
             \o filterRowsAbortOnThrow(Tail(rows), lowerKeyword)

\* Array.prototype.filter with the callback above
RECURSIVE filterRows(_, _)
filterRows(rows, lowerKeyword) ==
    IF rows = <<>> THEN <<>>
    ELSE (IF matches(Head(rows), lowerKeyword) THEN <<Head(rows)>> ELSE <<>>)
             \o filterRows(Tail(rows), lowerKeyword)

\* a search that leaves the rows in the order it found them
handleSearchUnsorted(keyword, sourceData) ==
    IF Trim(keyword) = <<>> THEN sourceData
    ELSE filterRows(sourceData, toLowerCase(keyword))

\* a search that loses the last row it found
handleSearchDropsLast(keyword, sourceData) ==
    IF Trim(keyword) = <<>> THEN SortByWebsite(sourceData)
    ELSE LET found == SortByWebsite(filterRows(sourceData, toLowerCase(keyword)))
         IN  SubSeq(found, 1, Len(found) - 1)

\* handleSearch(keyword, sourceData): the value handed to setFilteredData
handleSearch(keyword, sourceData) ==
    IF Trim(keyword) = <<>> THEN SortByWebsite(sourceData)
    ELSE IF Len(sourceData) = 0 THEN <<>>
    ELSE SortByWebsite(filterRows(sourceData, toLowerCase(keyword)))

\* part_006, part_008 handleSearch, the callback of data.filter: the
\* lower-cased keyword is in the lower-cased website or account
matchesPlain(item, lowerKeyword) ==
    \/ includes(toLowerCase(item.website), lowerKeyword)
    \/ includes(toLowerCase(item.account), lowerKeyword)

\* Array.prototype.filter with the callback above
RECURSIVE filterRowsPlain(_, _)
filterRowsPlain(rows, lowerKeyword) ==
    IF rows = <<>> THEN <<>>
    ELSE (IF matchesPlain(Head(rows), lowerKeyword) THEN <<Head(rows)>> ELSE <<>>)
             \o filterRowsPlain(Tail(rows), lowerKeyword)

\* part_006, part_008 handleSearch: the value handed to setFilteredData
handleSearchPlain(keyword, sourceData) ==
    IF Trim(keyword) = <<>> THEN SortByWebsite(sourceData)
    ELSE SortByWebsite(filterRowsPlain(sourceData, toLowerCase(keyword)))

\* the search effect of the generation v
searchEffect(v, keyword, sourceData) ==
    IF v \in {"local", "axios"} THEN handleSearchPlain(keyword, sourceData)
    ELSE handleSearch(keyword, sourceData)

\* the row the table shows for an account whose password resolved to pw
toRow(acc, pw) ==
    [key |-> ToString(acc.rid), rid |-> acc.rid, website |-> Trim(acc.website),
     account |-> acc.account, password |-> pw]

\* decryptBatch's answer for the passwords of accs; the entries in `empties`
\* come back empty
decryptBatch(accs, empties) ==
    [i \in 1..Len(accs) |-> IF i \in empties THEN "" ELSE Plain(accs[i].password)]

\* the sets of positions whose decryption comes back empty: none, or the first
Empties(accs) == {{}} \cup {{i} : i \in (1..Len(accs)) \cap {1}}

\* a batch that carries the passwords in reverse order
batchMessagesReversed(accs) ==
    [i \in 1..Len(accs) |-> accs[Len(accs) + 1 - i].password]

\* tauri.ts decryptAccounts: the messages of the decryptBatch call
batchMessages(accs) == [i \in 1..Len(accs) |-> accs[i].password]

\* tauri.ts decryptAccounts: the decryptBatch calls made for accs; none for
\* an empty list
batchCalls(accs) == IF Len(accs) = 0 THEN <<>> ELSE <<batchMessages(accs)>>

\* tauri.ts decryptAccounts: each account with decryptedPasswords[index], or
\* with its own password where that entry is empty
assignPasswords(accs, out) ==
    [i \in 1..Len(accs) |->
        [accs[i] EXCEPT !.password = IF out[i] # "" THEN out[i] ELSE @]]

\* tauri.ts decryptAccounts, given the positions whose decryption is empty
decryptAccounts(accs, empties) ==
    assignPasswords(accs, decryptBatch(accs, empties))

\* the component's map of decrypted accounts to table rows
toRows(accs) == [i \in 1..Len(accs) |-> toRow(accs[i], accs[i].password)]

\* part_005: one decrypt per record, awaited with Promise.all
decryptEach(accs, empties) ==
    [i \in 1..Len(accs) |->
        toRow(accs[i], IF i \in empties THEN "" ELSE Plain(accs[i].password))]

\* the projection either generation computes from a record list
project(v, accs, empties) ==
    IF v = "tauri" THEN toRows(decryptAccounts(accs, empties))
    ELSE decryptEach(accs, empties)

----------------------------------------------------------------------------
(* Responses of the remote side and of the backend *)

Fields == {"pull_mode", "update_time", "accounts"}

\* An ApiResponse<QueryResponse>: `data` tells whether data is present and
\* `has` which of its fields are; a field outside `has` is undefined.
ApiResp(code, hasData, has, pm, ut, accs) ==
    [code |-> code, data |-> hasData, has |-> has,
     pull_mode |-> pm, update_time |-> ut, accounts |-> accs]

\* the slot of a response that has not arrived
NoResp == ApiResp(-2, FALSE, {}, "", 0, <<>>)

\* { code: -1, msg }
Failed == ApiResp(-1, FALSE, {}, "", 0, <<>>)

\* What GET /account can produce at the HTTP level.
RawReply(net, hasCodeMsg, code, hasData, has, pm, ut, accs) ==
    [net |-> net, hasCodeMsg |-> hasCodeMsg,
     body |-> ApiResp(code, hasData, has, pm, ut, accs)]

RawReplies ==
    {RawReply("unreachable", FALSE, 0, FALSE, {}, "", 0, <<>>),
     RawReply("http_error", TRUE, 0, FALSE, {}, "", 0, <<>>),
     RawReply("ok", FALSE, 0, FALSE, {}, "", 0, <<>>),
     RawReply("ok", TRUE, 1, FALSE, {}, "", 0, <<>>),
     RawReply("ok", TRUE, 0, FALSE, {}, "", 0, <<>>)}
    \cup {RawReply("ok", TRUE, 0, TRUE, Fields \ {f},
                   IF f = "pull_mode" THEN "" ELSE "PULL_ALL",
                   IF f = "update_time" THEN 0 ELSE MaxTime,
                   IF f = "accounts" THEN <<>> ELSE <<Rec1>>) : f \in Fields}
    \cup {RawReply("ok", TRUE, 0, TRUE, Fields, "PULL_NOTHING", t, <<>>) :
             t \in 1..MaxTime}
    \cup {RawReply("ok", TRUE, 0, TRUE, Fields, "PULL_ALL", t, accs) :
             t \in 1..MaxTime, accs \in Snapshots}

\* ApiClient.request: throws unless the fetch succeeded with an ok status
requestThrows(raw) == raw.net # "ok"

\* part_005 requestQuery: everything thrown, and a body without code or msg,
\* becomes { code: -1 }; otherwise code and data are passed through unchecked
requestQuery(raw) ==
    IF requestThrows(raw) THEN Failed
    ELSE IF ~raw.hasCodeMsg THEN Failed
    ELSE raw.body

\* What the backend command query_accounts hands back to tauri.ts.
BackendResults ==
    {[kind |-> "reject", update_time |-> 0, accounts |-> <<>>],
     [kind |-> "empty", update_time |-> 0, accounts |-> <<>>]}
    \cup {[kind |-> "json", update_time |-> t, accounts |-> accs] :
             t \in 1..MaxTime, accs \in Snapshots}

\* tauri.ts queryAccounts: a rejected invoke is code -1, an empty or "{}"
\* result is PULL_NOTHING with no accounts, anything else is PULL_ALL
queryAccounts(result) ==
    IF result.kind = "reject" THEN Failed
    ELSE IF result.kind = "empty"
         THEN ApiResp(0, TRUE, Fields, "PULL_NOTHING", 0, <<>>)
         ELSE ApiResp(0, TRUE, Fields, "PULL_ALL", result.update_time, result.accounts)

\* a response whose record list and watermark are no longer read by the call
\* holding it
consumed(resp) == [resp EXCEPT !.update_time = 0, !.accounts = <<>>]

\* a check that lets every response through
acceptedAlways(resp) == TRUE

\* code === 0 && responseData
accepted(resp) == resp.code = 0 /\ resp.data

----------------------------------------------------------------------------
(* The backend's cache commands *)

\* the cache holds a snapshot with at least one account
nonEmpty(c) == c.present /\ Len(c.accounts) > 0

\* the backend's view of the store for the logged-in user: the snapshot when
\* it is stored under that user, nothing otherwise
load_query_cache(c, user) ==
    IF c.present /\ c.username = user THEN c ELSE NoCache

\* tauri.ts loadQueryCache over the command's result c: the snapshot, or null
\* when the command fails or nothing is stored
loadQueryCache(c, ok) == IF ok /\ c.present THEN c ELSE NoCache

\* get_last_update_time: the stored watermark, 0 without a cache
getLastUpdateTime(c) == IF c.present THEN c.update_time ELSE 0

\* a mapping that hands the decrypted passwords to saveQueryCache
cacheAccountsDecrypted(accs, username) ==
    [i \in 1..Len(accs) |->
        [rid |-> accs[i].rid, website |-> accs[i].website,
         account |-> accs[i].account, password |-> Plain(accs[i].password),
         username |-> username]]

\* part_005 handleQuery: the records handed to saveQueryCache keep the
\* password as received and carry the user name
cacheAccounts(accs, username) ==
    [i \in 1..Len(accs) |->
        [rid |-> accs[i].rid, website |-> accs[i].website,
         account |-> accs[i].account, password |-> accs[i].password,
         username |-> username]]

\* the AccountItem the backend keeps of a record handed to it: every field of
\* accountsJson, the user name the component put into the record included
accountItem(a) ==
    [rid |-> a.rid, website |-> a.website, account |-> a.account,
     password |-> a.password, username |-> a.username]

\* the cache after save_query_cache(pullMode, updateTime, accountsJson):
\* a call with an undefined argument is rejected, PULL_NOTHING leaves the
\* snapshot alone, PULL_ALL replaces it wholesale.  The command is given no
\* owner: the snapshot is kept for the user of the backend's session, and
\* the name inside the records (null after a failed getUsername, "" from
\* part_008) is stored with them, not used as the key
save_query_cache(c, has, pm, ut, accs) ==
    IF ~({"pull_mode", "update_time"} \subseteq has) THEN c
    ELSE IF pm = "PULL_NOTHING" THEN c
    ELSE Snapshot(Username, ut, [i \in 1..Len(accs) |-> accountItem(accs[i])])

\* the cache after the backend's own pull in query_accounts
pullIntoCache(c, result) ==
    IF result.kind = "json"
    THEN Snapshot(Username, result.update_time, result.accounts)
    ELSE c

----------------------------------------------------------------------------
(* Activation records *)

\* "ui", "ui2": the calls made by the table itself (mount effect, Refresh
\* button); the button is released as soon as any call resets loading, so a
\* second click can start a call while the first is still awaiting
UiIds == {"ui", "ui2"}

\* "save", "delete": the call awaited inside save / handleDelete
QueryIds == UiIds \cup {"save", "delete"}

\* peerDone: another forced call has shown a PULL_ALL pull and returned
\* while this one was in flight
\* user: the name that goes into the records handed to saveQueryCache: what
\* getUsername answered to the call in part_005, "" in part_008
IdleFrame ==
    [pc |-> "idle", force |-> FALSE, lut |-> 0, resp |-> NoResp, loaded |-> <<>>,
     user |-> "", cacheHit |-> FALSE, remote |-> 0, saves |-> 0,
     peerDone |-> FALSE]

\* input: the password in the form; password: the password field of the
\* mutation call in flight
IdleTask ==
    [pc |-> "idle", called |-> FALSE, code |-> 0, queries |-> 0, rid |-> 0,
     input |-> "", password |-> ""]

\* a task whose mutation call is over
afterCall(t) == [t EXCEPT !.rid = 0, !.input = "", !.password = ""]

NoQuery == [saves |-> 0, pull |-> "none", msg |-> "none"]

\* AuthProvider state of a session in which u has logged in
LoggedIn(u) == [user |-> u, error |-> Null, isLoading |-> FALSE]

\* login and checkAuth have no guard of their own, so calls can overlap: one
\* activation record per call that can be made in a run, plus the checkAuth
\* call of the mount effect
LoginIds == 1..MaxOps
CheckIds == 1..(MaxOps + 1)

\* no login call has returned; one that has leaves the name it was called
\* with, the response it got and the value it returned
NoLoginResp == [code |-> -2, msg |-> "", data |-> FALSE]
NoReturn == [username |-> "", resp |-> NoLoginResp, result |-> FALSE]

\* logins[i]: the username of the pending login call i ("" when free);
\* checks[i]: the await checkAuth call i is at ("idle" when free)
IdleLogin ==
    [logins |-> [i \in LoginIds |-> ""], checks |-> [i \in CheckIds |-> "idle"],
     returned |-> NoReturn, op |-> "none"]

\* useDebounce(queryKeyword, 300): the delay, in steps of 100 ms
DebounceDelay == 3

\* no setTimeout of useDebounce is pending (left = -1); a pending one has
\* `left` steps to go and will set the debounced value to `value`; burst is
\* the number of keystrokes that each replaced a pending timer, the first
\* one included
NoTimer == [left |-> -1, value |-> <<>>, burst |-> 0]

\* the keyword the search effect filters by: the debounced one in part_007,
\* the search box itself in part_005
searchKeyword(v) == IF v = "tauri" THEN debouncedKeyword ELSE queryKeyword

Init ==
    /\ variant \in Variants
    /\ locale \in Locales
    /\ cache \in {NoCache, ForeignSnapshot} \cup PersistedSnapshots(variant)
    /\ data = <<>>
    /\ filteredData = <<>>
    /\ loading = FALSE
    /\ saving = FALSE
    /\ deleting = FALSE
    /\ editingKey = ""
    /\ queryKeyword = <<>>
    /\ debouncedKeyword = <<>>
    /\ timer = NoTimer
    /\ auth = LoggedIn(Username)
    /\ loginTask = IdleLogin
    /\ hasInitialized = FALSE
    /\ frames = [q \in QueryIds |-> IdleFrame]
    /\ saveTask = IdleTask
    /\ deleteTask = IdleTask
    /\ insertTask = IdleTask
    /\ lastQuery = NoQuery
    /\ ops = 0

\* where handleQuery goes when it has to ask the remote side: part_007 to
\* api.queryAccounts, part_005 and part_008 to getLastUpdateTime, part_006
\* straight into requestQuery(Math.floor(0)), whose first await is the token
remoteEntry(v) ==
    IF v = "tauri" THEN "query"
    ELSE IF v = "axios" THEN "token"
    ELSE "getLut"

\* handleQuery(forceRefresh) up to its first await (setLoading(true) is the
\* caller's conjunct): a passive call awaits loadQueryCache, a forced one
\* the remote side
beginQuery(v, force) ==
    [IdleFrame EXCEPT !.force = force,
                      !.pc = IF force THEN remoteEntry(v) ELSE "loadCache"]

\* how a pull ended: not made, failed (code # 0), without data, with data
\* lacking a field, or with the pull mode the data names
pullKind(resp) ==
    IF resp = NoResp THEN "none"
    ELSE IF resp.code # 0 THEN "failed"
    ELSE IF ~resp.data THEN "nodata"
    ELSE IF resp.has # Fields THEN "partial"
    ELSE resp.pull_mode

\* the summary kept of a call that returns with the message msg
summary(f, msg) ==
    [saves |-> f.saves, pull |-> pullKind(f.resp), msg |-> msg]

\* a handleQuery that resets loading only at the end of its try block
finishQueryNoFinally(q, f, msg) ==
    /\ frames' = [p \in QueryIds |->
                    IF p = q THEN IdleFrame
                    ELSE IF /\ frames[p].pc # "idle"
                            /\ f.force /\ msg = "success"
                            /\ pullKind(f.resp) = "PULL_ALL"
                         THEN [frames[p] EXCEPT !.peerDone = TRUE]
                         ELSE frames[p]]
    /\ lastQuery' = summary(f, msg)
    /\ loading' = IF msg = "error" THEN loading ELSE FALSE
    /\ saving' = IF q = "save" /\ saveTask.pc = "query" THEN FALSE ELSE saving
    /\ saveTask' = IF q = "save" /\ saveTask.pc = "query"
                   THEN [afterCall(saveTask) EXCEPT !.pc = "done"] ELSE saveTask
    /\ deleting' = IF q = "delete" /\ deleteTask.pc = "query" THEN FALSE ELSE deleting
    /\ deleteTask' = IF q = "delete" /\ deleteTask.pc = "query"
                     THEN [afterCall(deleteTask) EXCEPT !.pc = "done"] ELSE deleteTask

\* handleQuery q returns with its frame f: setLoading(false), and the handler
\* awaiting it, if any, runs its finally block in the same turn
finishQuery(q, f, msg) ==
    /\ frames' = [p \in QueryIds |->
                    IF p = q THEN IdleFrame
                    ELSE IF /\ frames[p].pc # "idle"
                            /\ f.force /\ msg = "success"
                            /\ pullKind(f.resp) = "PULL_ALL"
                         THEN [frames[p] EXCEPT !.peerDone = TRUE]
                         ELSE frames[p]]
    /\ lastQuery' = summary(f, msg)
    /\ loading' = FALSE
    /\ saving' = IF q = "save" /\ saveTask.pc = "query" THEN FALSE ELSE saving
    /\ saveTask' = IF q = "save" /\ saveTask.pc = "query"
                   THEN [afterCall(saveTask) EXCEPT !.pc = "done"] ELSE saveTask
    /\ deleting' = IF q = "delete" /\ deleteTask.pc = "query" THEN FALSE ELSE deleting
    /\ deleteTask' = IF q = "delete" /\ deleteTask.pc = "query"
                     THEN [afterCall(deleteTask) EXCEPT !.pc = "done"] ELSE deleteTask

\* handleQuery q moves on to its next await
continueQuery(q, f) ==
    /\ frames' = [frames EXCEPT ![q] = [f EXCEPT !.peerDone = frames[q].peerDone]]
    /\ UNCHANGED <<lastQuery, loading, saving, saveTask, deleting, deleteTask>>

\* setData(rows); setFilteredData(rows) with no search effect after it
showRowsRaw(rows) ==
    /\ data' = rows
    /\ filteredData' = rows

\* setData(rows); setFilteredData(rows); then the search effect re-filters
showRows(rows) ==
    /\ data' = rows
    /\ filteredData' = searchEffect(variant, searchKeyword(variant), rows)

\* handleQuery q, with its frame f, goes on to decrypt the records accs it
\* will show.  decryptAccounts returns an empty list without awaiting a
\* command and Promise.all of no promise resolves in the same turn, so an
\* empty list is shown and the call returns within the step that produced
\* it; otherwise the call waits at pc for the decryption
decryptPulled(q, f, pc, accs) ==
    IF Len(accs) = 0
    THEN /\ showRows(<<>>)
         /\ finishQuery(q, f, "success")
    ELSE /\ continueQuery(q, [f EXCEPT !.pc = pc, !.loaded = accs])
         /\ UNCHANGED <<data, filteredData>>

----------------------------------------------------------------------------
(* handleQuery *)

\* the mount effect's call: handleQuery(true)
mountForce == TRUE

\* the user navigates to the table: the mount effect runs once and calls
\* handleQuery (handleQuery(true); handleQuery() in part_006, which takes no
\* parameter); in part_007 the effect of useDebounce sets its first timer in
\* the same commit
Mount ==
    /\ ~hasInitialized
    /\ hasInitialized' = TRUE
    /\ ops < MaxOps
    /\ ops' = ops + 1
    /\ lastQuery' = NoQuery
    /\ loading' = TRUE
    /\ frames' = [frames EXCEPT !["ui"] = beginQuery(variant, mountForce)]
    /\ timer' = IF variant = "tauri"
                THEN [left |-> DebounceDelay, value |-> queryKeyword, burst |-> 0]
                ELSE timer
    /\ UNCHANGED <<variant, locale, auth, loginTask, queryKeyword, debouncedKeyword, cache, data,
                   filteredData, saving, deleting,
                   editingKey, saveTask, deleteTask, insertTask>>

\* the Refresh button, <Button onClick={() => handleQuery(true)}
\* loading={loading}>: a click counts while loading is false; the call takes
\* the first free record of UiIds
StartQuery(q) ==
    /\ q \in UiIds
    /\ hasInitialized
    /\ ~loading
    /\ frames[q].pc = "idle"
    /\ q = "ui2" => frames["ui"].pc # "idle"
    /\ ops < MaxOps
    /\ ops' = ops + 1
    /\ lastQuery' = NoQuery
    /\ loading' = TRUE
    /\ frames' = [frames EXCEPT ![q] = beginQuery(variant, TRUE)]
    /\ UNCHANGED <<variant, locale, auth, loginTask, queryKeyword, debouncedKeyword, timer, hasInitialized,
                   cache, data, filteredData, saving, deleting, editingKey,
                   saveTask, deleteTask, insertTask>>

\* loadFromCache: loadQueryCache answers
LoadCacheStep(q) ==
    /\ frames[q].pc = "loadCache"
    /\ \E ok \in BOOLEAN :
         LET stored == load_query_cache(cache, Username)
             cacheData == loadQueryCache(stored, ok)
             f == [frames[q] EXCEPT !.cacheHit = nonEmpty(stored)]
         IN  IF nonEmpty(cacheData)
             THEN continueQuery(q, [f EXCEPT !.pc = "decryptCache",
                                             !.loaded = cacheData.accounts])
             ELSE continueQuery(q, [f EXCEPT !.pc = remoteEntry(variant)])
    /\ UNCHANGED <<variant, locale, auth, loginTask, queryKeyword, debouncedKeyword, timer, hasInitialized,
                   cache, data, filteredData, editingKey, insertTask, ops>>

\* loadFromCache: the decryption of the cached records answers; a rejection
\* is caught, loadFromCache returns false and handleQuery goes remote
DecryptCacheStep(q) ==
    /\ frames[q].pc = "decryptCache"
    /\ \/ /\ continueQuery(q, [frames[q] EXCEPT !.pc = remoteEntry(variant),
                                                !.loaded = <<>>])
          /\ UNCHANGED <<data, filteredData>>
       \/ \E empties \in Empties(frames[q].loaded) :
            /\ showRows(project(variant, frames[q].loaded, empties))
            /\ finishQuery(q, frames[q], "success")
    /\ UNCHANGED <<variant, locale, auth, loginTask, queryKeyword, debouncedKeyword, timer, hasInitialized,
                   cache, editingKey, insertTask, ops>>

\* what query_accounts(forceRefresh) may hand back for the cache c: a passive
\* call with a usable snapshot is served from it, any other call pulls
query_accounts(c, force) ==
    IF ~force /\ nonEmpty(c)
    THEN {[kind |-> "reject", update_time |-> 0, accounts |-> <<>>],
          [kind |-> "json", update_time |-> c.update_time, accounts |-> c.accounts]}
    ELSE BackendResults

\* part_007 handleQuery: api.queryAccounts(forceRefresh) answers
QueryStep(q) ==
    /\ variant = "tauri"
    /\ frames[q].pc = "query"
    /\ \E result \in query_accounts(load_query_cache(cache, Username),
                                      frames[q].force) :
         LET resp == queryAccounts(result)
             f == [frames[q] EXCEPT !.resp = consumed(resp), !.remote = @ + 1]
         IN  /\ cache' = IF ~frames[q].force
                            /\ nonEmpty(load_query_cache(cache, Username))
                         THEN cache ELSE pullIntoCache(cache, result)
             /\ IF accepted(resp)
                THEN decryptPulled(q, f, "decryptResp", resp.accounts)
                ELSE /\ finishQuery(q, f, "error")
                     /\ UNCHANGED <<data, filteredData>>
    /\ UNCHANGED <<variant, locale, auth, loginTask, queryKeyword, debouncedKeyword, timer, hasInitialized,
                   editingKey, insertTask, ops>>

\* part_008 getLastUpdateTime: the stored watermark, or 0 from the catch
\* block when the get_last_update_time command fails
getLastUpdateTimeLocal(c, ok) == IF ok THEN getLastUpdateTime(c) ELSE 0

\* part_005 handleQuery: tauriClient.getLastUpdateTime() answers; a rejection
\* lands in handleQuery's catch.  part_008 handleQuery: its own
\* getLastUpdateTime answers, with 0 when the command failed.  The call goes
\* on into requestQuery(lastUpdateTime), which first awaits the token
GetLutStep(q) ==
    /\ variant \in {"api", "local"}
    /\ frames[q].pc = "getLut"
    /\ \/ \E ok \in BOOLEAN :
            /\ variant = "api" => ok
            /\ continueQuery(q, [frames[q] EXCEPT
                                   !.pc = "token",
                                   !.lut = getLastUpdateTimeLocal(
                                              load_query_cache(cache, Username), ok)])
       \/ /\ variant = "api"
          /\ finishQuery(q, frames[q], "error")
    /\ UNCHANGED <<variant, locale, auth, loginTask, queryKeyword, debouncedKeyword, timer, hasInitialized,
                   cache, data, filteredData, editingKey, insertTask, ops>>

\* requestQuery: the token answers.  api.ts queryAccounts awaits
\* tauriClient.getToken() and part_006, part_008 requestQuery await
\* getTokenFromCookie(); only then GET /account goes out, with the
\* update_time handleQuery passed in.  getTokenFromCookie never rejects; a
\* rejected get_token is caught by part_005 requestQuery, which returns
\* code -1 without a request having been made
TokenStep(q) ==
    /\ variant \in {"api", "local", "axios"}
    /\ frames[q].pc = "token"
    /\ \/ continueQuery(q, [frames[q] EXCEPT !.pc = "request"])
       \/ /\ variant = "api"
          /\ continueQuery(q, [frames[q] EXCEPT !.pc = "getUsername",
                                                !.resp = Failed, !.lut = 0])
    /\ UNCHANGED <<variant, locale, auth, loginTask, queryKeyword, debouncedKeyword, timer, hasInitialized,
                   cache, data, filteredData, editingKey, insertTask, ops>>

\* handleQuery with the response in its frame f: an accepted response is
\* mapped to cacheAccounts (a TypeError when accounts is undefined) and handed
\* to saveQueryCache, anything else ends in message.error
afterRequest(q, f) ==
    /\ IF accepted(f.resp) /\ "accounts" \in f.resp.has
       THEN continueQuery(q, [f EXCEPT !.pc = "save", !.saves = @ + 1])
       ELSE finishQuery(q, [f EXCEPT !.user = ""], "error")
    /\ UNCHANGED <<data, filteredData>>

\* part_006 handleQuery with the response in its frame f: the records of an
\* accepted response are decrypted one by one (a TypeError when accounts is
\* undefined), anything else ends in message.error
afterRequestNoCache(q, f) ==
    IF accepted(f.resp) /\ "accounts" \in f.resp.has
    THEN decryptPulled(q, [f EXCEPT !.resp = consumed(@)], "decryptResp",
                       f.resp.accounts)
    ELSE /\ finishQuery(q, f, "error")
         /\ UNCHANGED <<data, filteredData>>

\* GET /account answers and requestQuery returns: part_005 handleQuery goes
\* on to await tauriClient.getUsername(), part_008 and part_006 handleQuery
\* to the branch on the response
RequestStep(q) ==
    /\ variant \in {"api", "local", "axios"}
    /\ frames[q].pc = "request"
    /\ \E raw \in RawReplies :
         LET f == [frames[q] EXCEPT !.resp = requestQuery(raw), !.remote = @ + 1,
                                    !.lut = 0]
         IN  IF variant = "api"
             THEN /\ continueQuery(q, [f EXCEPT !.pc = "getUsername"])
                  /\ UNCHANGED <<data, filteredData>>
             ELSE IF variant = "axios" THEN afterRequestNoCache(q, f)
             ELSE afterRequest(q, f)
    /\ UNCHANGED <<variant, locale, auth, loginTask, queryKeyword, debouncedKeyword, timer, hasInitialized,
                   cache, editingKey, insertTask, ops>>

\* part_005 handleQuery: tauriClient.getUsername() answers with the name of
\* the session's user, or with null when the get_username command failed
\* (never a rejection); then the branch on the response, in which the answer
\* goes into every record handed to saveQueryCache
GetUsernameStep(q) ==
    /\ variant = "api"
    /\ frames[q].pc = "getUsername"
    /\ \E username \in {Username, Null} :
         afterRequest(q, [frames[q] EXCEPT !.user = username])
    /\ UNCHANGED <<variant, locale, auth, loginTask, queryKeyword, debouncedKeyword, timer, hasInitialized,
                   cache, editingKey, insertTask, ops>>

\* a handleQuery that announces every response to the cache as PULL_ALL
saveArgsAlwaysAll(resp, username) ==
    [has |-> resp.has, pull_mode |-> "PULL_ALL", update_time |-> resp.update_time,
     accounts |-> cacheAccounts(resp.accounts, username)]

\* part_005 handleQuery: the arguments of saveQueryCache are the response's
\* pull_mode and update_time and the mapped record list
saveArgs(resp, username) ==
    [has |-> resp.has, pull_mode |-> resp.pull_mode, update_time |-> resp.update_time,
     accounts |-> cacheAccounts(resp.accounts, username)]

\* saveQueryCache answers: the backend has applied the call, or the command
\* failed and the error was only logged
SaveStep(q) ==
    /\ variant \in {"api", "local"}
    /\ frames[q].pc = "save"
    /\ LET a == saveArgs(frames[q].resp, frames[q].user)
       IN  \E ok \in BOOLEAN :
             cache' = IF ok
                      THEN save_query_cache(cache, a.has, a.pull_mode, a.update_time,
                                            a.accounts)
                      ELSE cache
    /\ continueQuery(q, [frames[q] EXCEPT !.pc = "reload", !.resp = consumed(@),
                                          !.user = ""])
    /\ UNCHANGED <<variant, locale, auth, loginTask, queryKeyword, debouncedKeyword, timer, hasInitialized,
                   data, filteredData, editingKey, insertTask, ops>>

\* part_005, part_008 handleQuery: the second loadQueryCache answers; without a
\* snapshot the call returns without touching the table
ReloadStep(q) ==
    /\ variant \in {"api", "local"}
    /\ frames[q].pc = "reload"
    /\ \E ok \in BOOLEAN :
         LET cacheData == loadQueryCache(load_query_cache(cache, Username), ok)
         IN  IF cacheData.present
             THEN decryptPulled(q, frames[q], "decryptReload", cacheData.accounts)
             ELSE /\ finishQuery(q, frames[q], "none")
                  /\ UNCHANGED <<data, filteredData>>
    /\ UNCHANGED <<variant, locale, auth, loginTask, queryKeyword, debouncedKeyword, timer, hasInitialized,
                   cache, editingKey, insertTask, ops>>

\* the decryption of the pulled (part_007, part_006) or reloaded (part_005,
\* part_008) records, of which there is at least one, answers; a rejection
\* lands in handleQuery's catch
DecryptPulledStep(q) ==
    /\ frames[q].pc \in {"decryptResp", "decryptReload"}
    /\ \/ /\ finishQuery(q, frames[q], "error")
          /\ UNCHANGED <<data, filteredData>>
       \/ \E empties \in Empties(frames[q].loaded) :
            /\ showRows(project(variant, frames[q].loaded, empties))
            /\ finishQuery(q, frames[q], "success")
    /\ UNCHANGED <<variant, locale, auth, loginTask, queryKeyword, debouncedKeyword, timer, hasInitialized,
                   cache, editingKey, insertTask, ops>>

----------------------------------------------------------------------------
(* Mutations *)

\* the codes a mutation request can come back with: 0, a failure code of the
\* remote side (api.ts passes it through), -1 for everything thrown
mutationCodes(v) == IF v = "tauri" THEN {0, -1} ELSE {0, 1, -1}

\* a save that resyncs only after a successful update
saveResyncOnSuccess(code) == code = 0

\* save: handleQuery(true) follows the update call in the success branch and
\* in the failure branch
saveResync(code) == TRUE

\* handleDelete: handleQuery(true) follows the delete call only when code === 0
deleteResync(code) == code = 0

\* a handler that starts handleQuery(true) without awaiting it
resyncNotAwaited(handler) == FALSE

\* save and handleDelete `await` the handleQuery(true) they start
resyncAwaited(handler) == TRUE

\* save reaches a handleQuery(true), or its finally block, with the task t
saveContinue(t, resync) ==
    IF resync
    THEN /\ frames' = [frames EXCEPT !["save"] = beginQuery(variant, TRUE)]
         /\ loading' = TRUE
         /\ saveTask' = [t EXCEPT !.queries = @ + 1, !.input = "", !.password = "",
                                  !.pc = IF resyncAwaited("save") THEN "query" ELSE "done"]
         /\ saving' = resyncAwaited("save")
    ELSE /\ saveTask' = [afterCall(t) EXCEPT !.pc = "done"]
         /\ saving' = FALSE
         /\ UNCHANGED <<frames, loading>>

\* a lookup that compares the numeric rid with the string key by ===, and so
\* finds no record
originalRecordByRid(rows, key) == 0

\* save: data.find((item) => item.key === key) on the list save was created
\* with; the rid of the record found, 0 for undefined
originalRecord(rows, key) ==
    IF \E i \in 1..Len(rows) : rows[i].key = key
    THEN (CHOOSE r \in {rows[i].rid : i \in 1..Len(rows)} : ToString(r) = key)
    ELSE 0

\* save(key) is called: setSaving(true), then form.validateFields() is awaited
startSave(key) ==
    /\ ops < MaxOps
    /\ ops' = ops + 1
    /\ lastQuery' = NoQuery
    /\ saving' = TRUE
    /\ saveTask' = [IdleTask EXCEPT !.pc = "validate",
                                    !.rid = originalRecord(data, key)]

\* the user confirms "save" on the row being edited
SaveClick ==
    /\ editingKey # ""
    /\ ~saving
    /\ \E i \in 1..Len(filteredData) : filteredData[i].key = editingKey
    /\ startSave(editingKey)
    /\ UNCHANGED <<variant, locale, auth, loginTask, queryKeyword, debouncedKeyword, timer, hasInitialized,
                   cache, data, filteredData, loading, deleting, editingKey,
                   frames, deleteTask, insertTask>>

\* save: form.validateFields() answers
SaveValidated ==
    /\ saveTask.pc = "validate"
    /\ \/ saveContinue(saveTask, TRUE)
       \/ /\ saveTask.rid = 0
          /\ saveContinue(saveTask, FALSE)
       \/ /\ saveTask.rid # 0
          /\ \E pw \in Plaintexts :
               saveTask' = IF variant # "tauri"
                           THEN [saveTask EXCEPT !.pc = "encrypt", !.input = pw]
                           ELSE [saveTask EXCEPT !.pc = "update", !.input = pw,
                                                 !.password = pw]
          /\ UNCHANGED <<frames, loading, saving>>
    /\ UNCHANGED <<variant, locale, auth, loginTask, queryKeyword, debouncedKeyword, timer, hasInitialized,
                   cache, data, filteredData, deleting, editingKey,
                   deleteTask, insertTask, lastQuery, ops>>

\* a request that carries the password as typed
requestPasswordAsTyped(input, encrypted) == input

\* part_005 requestUpdate, part_009 requestInsert: the request's password
\* field is the value encrypt resolved to
requestPassword(input, encrypted) == encrypted

\* part_005 requestUpdate: tauriClient.encrypt answers and the request
\* object goes to apiClient.updateAccount, which awaits the token; a
\* rejection makes requestUpdate return code -1 without calling the remote
\* side.  part_008, part_006 save: invoke("encrypt") answers and the request
\* object goes to requestUpdate, which awaits the token; a rejection lands in
\* save's catch block, which resyncs as well
SaveEncrypted ==
    /\ variant \in {"api", "local", "axios"}
    /\ saveTask.pc = "encrypt"
    /\ \/ /\ saveTask' = [saveTask EXCEPT
                            !.pc = "token",
                            !.password = requestPassword(saveTask.input,
                                                         Cipher(saveTask.input))]
          /\ UNCHANGED <<frames, loading, saving>>
       \/ saveContinue([saveTask EXCEPT !.code = -1], saveResync(-1))
    /\ UNCHANGED <<variant, locale, auth, loginTask, queryKeyword, debouncedKeyword, timer, hasInitialized,
                   cache, data, filteredData, deleting, editingKey,
                   deleteTask, insertTask, lastQuery, ops>>

\* api.ts updateAccount, part_008 and part_006 requestUpdate: the token
\* answers and PUT /account goes out; a rejected get_token (part_005 only:
\* getTokenFromCookie of part_008, part_006 never rejects) is caught by
\* requestUpdate, which returns code -1
UpdateTokenStep ==
    /\ variant \in {"api", "local", "axios"}
    /\ saveTask.pc = "token"
    /\ \/ /\ saveTask' = [saveTask EXCEPT !.pc = "update"]
          /\ UNCHANGED <<frames, loading, saving>>
       \/ /\ variant = "api"
          /\ saveContinue([saveTask EXCEPT !.code = -1], saveResync(-1))
    /\ UNCHANGED <<variant, locale, auth, loginTask, queryKeyword, debouncedKeyword, timer, hasInitialized,
                   cache, data, filteredData, deleting, editingKey,
                   deleteTask, insertTask, lastQuery, ops>>

\* save: the update call answers
SaveUpdated ==
    /\ saveTask.pc = "update"
    /\ \E code \in mutationCodes(variant) :
         /\ saveContinue([saveTask EXCEPT !.called = TRUE, !.code = code],
                         saveResync(code))
         /\ editingKey' = IF code = 0 THEN "" ELSE editingKey
    /\ UNCHANGED <<variant, locale, auth, loginTask, queryKeyword, debouncedKeyword, timer, hasInitialized,
                   cache, data, filteredData, deleting,
                   deleteTask, insertTask, lastQuery, ops>>

\* row links that stay enabled while a save is running
rowActionsDisabledUnlessSaving == editingKey # "" \/ deleting

\* the Edit link and the delete Popconfirm of a row that is not being edited:
\* disabled={editingKey !== "" || saving || deleting}
rowActionsDisabled == editingKey # "" \/ saving \/ deleting

\* the first await of the delete call: the command in part_007, the token of
\* api.ts deleteAccount in part_005 and of requestDelete in part_008, part_006
deleteEntry(v) == IF v = "tauri" THEN "delete" ELSE "token"

\* the user confirms "delete" on row i of the table
DeleteClick(i) ==
    /\ i \in 1..Len(filteredData)
    /\ ~rowActionsDisabled
    /\ ops < MaxOps
    /\ ops' = ops + 1
    /\ lastQuery' = NoQuery
    /\ deleting' = TRUE
    /\ deleteTask' = [IdleTask EXCEPT !.pc = deleteEntry(variant),
                                      !.rid = filteredData[i].rid]
    /\ UNCHANGED <<variant, locale, auth, loginTask, queryKeyword, debouncedKeyword, timer, hasInitialized,
                   cache, data, filteredData, loading, saving, editingKey,
                   frames, saveTask, insertTask>>

\* api.ts deleteAccount, part_008 and part_006 requestDelete: the token
\* answers and DELETE /account goes out; a rejected get_token (part_005
\* only: getTokenFromCookie of part_008, part_006 never rejects) is caught by
\* requestDelete, which returns code -1, and handleDelete ends without a
\* resync
DeleteTokenStep ==
    /\ variant \in {"api", "local", "axios"}
    /\ deleteTask.pc = "token"
    /\ \/ /\ deleteTask' = [deleteTask EXCEPT !.pc = "delete"]
          /\ UNCHANGED deleting
       \/ /\ variant = "api"
          /\ deleteTask' = [afterCall(deleteTask) EXCEPT !.pc = "done", !.code = -1]
          /\ deleting' = FALSE
    /\ UNCHANGED <<variant, locale, auth, loginTask, queryKeyword, debouncedKeyword, timer, hasInitialized,
                   cache, data, filteredData, loading, saving, editingKey,
                   frames, saveTask, insertTask, lastQuery, ops>>

\* handleDelete: the delete call answers
DeleteReturned ==
    /\ deleteTask.pc = "delete"
    /\ \E code \in mutationCodes(variant) :
         LET t == [deleteTask EXCEPT !.called = TRUE, !.code = code]
         IN  IF deleteResync(code)
             THEN /\ frames' = [frames EXCEPT !["delete"] = beginQuery(variant, TRUE)]
                  /\ loading' = TRUE
                  /\ deleteTask' = [t EXCEPT
                        !.queries = @ + 1,
                        !.pc = IF resyncAwaited("handleDelete") THEN "query" ELSE "done"]
                  /\ deleting' = resyncAwaited("handleDelete")
             ELSE /\ deleteTask' = [afterCall(t) EXCEPT !.pc = "done"]
                  /\ deleting' = FALSE
                  /\ UNCHANGED <<frames, loading>>
    /\ UNCHANGED <<variant, locale, auth, loginTask, queryKeyword, debouncedKeyword, timer, hasInitialized,
                   cache, data, filteredData, saving, editingKey,
                   saveTask, insertTask, lastQuery, ops>>

\* the user clicks "edit" on row i of the table
Edit(i) ==
    /\ i \in 1..Len(filteredData)
    /\ ~rowActionsDisabled
    /\ ops < MaxOps
    /\ ops' = ops + 1
    /\ lastQuery' = NoQuery
    /\ editingKey' = filteredData[i].key
    /\ UNCHANGED <<variant, locale, auth, loginTask, queryKeyword, debouncedKeyword, timer, hasInitialized,
                   cache, data, filteredData, loading, saving, deleting,
                   frames, saveTask, deleteTask, insertTask>>

\* the user clicks "cancel" on the row being edited
Cancel ==
    /\ editingKey # ""
    /\ editingKey' = ""
    /\ UNCHANGED <<variant, locale, auth, loginTask, queryKeyword, debouncedKeyword, timer, hasInitialized,
                   cache, data, filteredData, loading, saving, deleting,
                   frames, saveTask, deleteTask, insertTask, lastQuery, ops>>

\* InsertForm.handleSubmit: the form is submitted (the submit button shows
\* loading while a submit is running).  part_010 calls api.insertAccount with
\* the values; the forms of part_009 first await the encryption of the
\* password: tauriClient.encrypt inside requestInsert in the one over
\* libs/api, invoke("encrypt") in handleSubmit in the one over axios, which
\* goes with part_006.  No InsertForm of the generation of part_008 is among
\* the sources
InsertSubmit ==
    /\ variant # "local"
    /\ insertTask.pc \in {"idle", "done"}
    /\ ops < MaxOps
    /\ ops' = ops + 1
    /\ lastQuery' = NoQuery
    /\ \E pw \in Plaintexts :
         insertTask' = IF variant \in {"api", "axios"}
                       THEN [IdleTask EXCEPT !.pc = "encrypt", !.input = pw]
                       ELSE [IdleTask EXCEPT !.pc = "insert", !.input = pw,
                                             !.password = pw]
    /\ UNCHANGED <<variant, locale, auth, loginTask, queryKeyword, debouncedKeyword, timer, hasInitialized,
                   cache, data, filteredData, loading, saving, deleting,
                   editingKey, frames, saveTask, deleteTask>>

\* part_009 requestInsert over libs/api: tauriClient.encrypt answers and the
\* request object goes to apiClient.insertAccount, which awaits the token; a
\* rejection makes requestInsert return code -1 without calling the remote
\* side.  part_009 handleSubmit over axios: invoke("encrypt") answers, the
\* result replaces values.password and requestInsert(values) awaits the
\* token; a rejection lands in handleSubmit's catch block, which shows the
\* error, and no request is made
InsertEncrypted ==
    /\ variant \in {"api", "axios"}
    /\ insertTask.pc = "encrypt"
    /\ \/ insertTask' = [insertTask EXCEPT
                            !.pc = "token",
                            !.password = requestPassword(insertTask.input,
                                                         Cipher(insertTask.input))]
       \/ insertTask' = [afterCall(insertTask) EXCEPT !.pc = "done", !.code = -1]
    /\ UNCHANGED <<variant, locale, auth, loginTask, queryKeyword, debouncedKeyword, timer, hasInitialized,
                   cache, data, filteredData, loading, saving, deleting,
                   editingKey, frames, saveTask, deleteTask, lastQuery, ops>>

\* api.ts insertAccount: tauriClient.getToken() answers and POST /account
\* goes out; a rejection is caught by requestInsert, which returns code -1.
\* part_009 requestInsert over axios: getTokenFromCookie() answers (it never
\* rejects) and POST /account goes out
InsertTokenStep ==
    /\ variant \in {"api", "axios"}
    /\ insertTask.pc = "token"
    /\ \/ insertTask' = [insertTask EXCEPT !.pc = "insert"]
       \/ /\ variant = "api"
          /\ insertTask' = [afterCall(insertTask) EXCEPT !.pc = "done", !.code = -1]
    /\ UNCHANGED <<variant, locale, auth, loginTask, queryKeyword, debouncedKeyword, timer, hasInitialized,
                   cache, data, filteredData, loading, saving, deleting,
                   editingKey, frames, saveTask, deleteTask, lastQuery, ops>>

\* InsertForm.handleSubmit: the insert call answers; the handler shows a
\* message, resets the form on success and returns
InsertReturned ==
    /\ insertTask.pc = "insert"
    /\ \E code \in mutationCodes(variant) :
         insertTask' = [afterCall(insertTask) EXCEPT
                          !.pc = "done", !.called = TRUE, !.code = code]
    /\ UNCHANGED <<variant, locale, auth, loginTask, queryKeyword, debouncedKeyword, timer, hasInitialized,
                   cache, data, filteredData, loading, saving, deleting,
                   editingKey, frames, saveTask, deleteTask, lastQuery, ops>>

----------------------------------------------------------------------------
(* The search box *)

\* "", "b", "ba", "a"
TypedKeywords == {<<>>, <<LatinB>>, <<LatinB, LatinA>>, <<LatinA>>}

\* a useDebounce whose effect leaves a pending timer in place
scheduleKeepsPending(old, value) ==
    IF old.left >= 0 THEN [old EXCEPT !.burst = @ + 1]
    ELSE [left |-> DebounceDelay, value |-> value, burst |-> 1]

\* useDebounce effect on a new value: clearTimeout of the pending timer, then
\* setTimeout(() => setDebouncedValue(value), delay)
schedule(old, value) ==
    [left |-> DebounceDelay, value |-> value,
     burst |-> IF old.left >= 0 THEN old.burst + 1 ELSE 1]

\* Input onChange: setQueryKeyword(e.target.value).  part_007: the effect of
\* useDebounce replaces the timer, the table is left alone.  part_005,
\* part_006, part_008: the search effect filters by the new keyword in the
\* same commit
Keystroke(k) ==
    /\ hasInitialized
    /\ k # queryKeyword
    /\ ops < MaxOps
    /\ ops' = ops + 1
    /\ queryKeyword' = k
    /\ timer' = IF variant = "tauri" THEN schedule(timer, k) ELSE timer
    /\ filteredData' = IF variant = "tauri" THEN filteredData
                       ELSE searchEffect(variant, k, data)
    /\ UNCHANGED <<variant, locale, auth, loginTask, debouncedKeyword, hasInitialized, cache, data,
                   loading, saving, deleting, editingKey, frames,
                   saveTask, deleteTask, insertTask, lastQuery>>

\* 100 ms pass without a keystroke
Tick ==
    /\ timer.left > 0
    /\ timer' = [timer EXCEPT !.left = @ - 1]
    /\ UNCHANGED <<variant, locale, auth, loginTask, queryKeyword, debouncedKeyword, hasInitialized, cache,
                   data, filteredData, loading, saving, deleting, editingKey,
                   frames, saveTask, deleteTask, insertTask, lastQuery, ops>>

\* the timer fires: setDebouncedValue(value); when the value is a new one the
\* search effect runs handleSearch(debouncedKeyword, data)
TimerFires ==
    /\ timer.left = 0
    /\ timer' = [timer EXCEPT !.left = -1]
    /\ debouncedKeyword' = timer.value
    /\ filteredData' = IF timer.value # debouncedKeyword
                       THEN handleSearch(timer.value, data) ELSE filteredData
    /\ UNCHANGED <<variant, locale, auth, loginTask, queryKeyword, hasInitialized, cache, data, loading,
                   saving, deleting, editingKey, frames, saveTask, deleteTask,
                   insertTask, lastQuery, ops>>

----------------------------------------------------------------------------
Next ==
    \/ Mount
    \/ \E q \in UiIds : StartQuery(q)
    \/ \E q \in QueryIds : QueryStep(q)
    \/ \E q \in QueryIds : GetLutStep(q)
    \/ \E q \in QueryIds : TokenStep(q)
    \/ \E q \in QueryIds : RequestStep(q)
    \/ \E q \in QueryIds : GetUsernameStep(q)
    \/ \E q \in QueryIds : SaveStep(q)
    \/ \E q \in QueryIds : ReloadStep(q)
    \/ \E q \in QueryIds : DecryptPulledStep(q)
    \/ SaveClick
    \/ SaveValidated
    \/ SaveEncrypted
    \/ UpdateTokenStep
    \/ SaveUpdated
    \/ \E i \in 1..2 : DeleteClick(i)
    \/ DeleteTokenStep
    \/ DeleteReturned
    \/ \E i \in 1..2 : Edit(i)
    \/ Cancel
    \/ InsertSubmit
    \/ InsertEncrypted
    \/ InsertTokenStep
    \/ InsertReturned
    \/ \E k \in TypedKeywords : Keystroke(k)
    \/ Tick
    \/ TimerFires

Spec == Init /\ [][Next]_vars

----------------------------------------------------------------------------
(***************************************************************************)
(* handleQuery with its parameter at the default, forceRefresh = false: no   *)
(* call site of the components passes it, so the call is made here on its   *)
(* own, over every cache, and followed to its return.                        *)
(***************************************************************************)

PassiveInit ==
    /\ variant \in Variants
    /\ locale \in Locales
    /\ cache \in {NoCache, ForeignSnapshot} \cup PersistedSnapshots(variant)
    /\ data = <<>>
    /\ filteredData = <<>>
    /\ loading = FALSE
    /\ saving = FALSE
    /\ deleting = FALSE
    /\ editingKey = ""
    /\ queryKeyword = <<>>
    /\ debouncedKeyword = <<>>
    /\ timer = NoTimer
    /\ auth = LoggedIn(Username)
    /\ loginTask = IdleLogin
    /\ hasInitialized = TRUE
    /\ frames = [q \in QueryIds |-> IdleFrame]
    /\ saveTask = IdleTask
    /\ deleteTask = IdleTask
    /\ insertTask = IdleTask
    /\ lastQuery = NoQuery
    /\ ops = 0

\* handleQuery() is called: setLoading(true), then loadFromCache is awaited
PassiveCall ==
    /\ frames["ui"].pc = "idle"
    /\ ops < MaxOps
    /\ ops' = ops + 1
    /\ lastQuery' = NoQuery
    /\ loading' = TRUE
    /\ frames' = [frames EXCEPT !["ui"] = beginQuery(variant, FALSE)]
    /\ UNCHANGED <<variant, locale, auth, loginTask, queryKeyword, debouncedKeyword, timer, hasInitialized,
                   cache, data, filteredData, saving, deleting, editingKey,
                   saveTask, deleteTask, insertTask>>

PassiveNext ==
    \/ PassiveCall
    \/ LoadCacheStep("ui")
    \/ DecryptCacheStep("ui")
    \/ QueryStep("ui")
    \/ GetLutStep("ui")
    \/ TokenStep("ui")
    \/ RequestStep("ui")
    \/ GetUsernameStep("ui")
    \/ SaveStep("ui")
    \/ ReloadStep("ui")
    \/ DecryptPulledStep("ui")

PassiveSpec == PassiveInit /\ [][PassiveNext]_vars

----------------------------------------------------------------------------
(* decryptAccounts on its own: the call loadFromCache and handleQuery make,  *)
(* over every record list of up to MaxAccounts records.                      *)

\* the record lists decryptAccounts is given
RECURSIVE AccountLists(_)
AccountLists(n) ==
    IF n = 0 THEN {<<>>}
    ELSE LET shorter == AccountLists(n - 1)
         IN  shorter \cup {Append(l, r) : l \in shorter, r \in {Rec1, Rec2, RecB}}

\* the activation record of decryptAccounts: the decryptBatch calls made so
\* far, decryptedPasswords, and the list returned
ProjectFrame ==
    [pc |-> "project", batches |-> <<>>, decrypted |-> <<>>, result |-> <<>>]

ProjectInit ==
    /\ variant = "tauri"
    /\ locale \in Locales
    /\ cache \in {Snapshot(Username, 1, accs) : accs \in AccountLists(MaxAccounts)}
    /\ data = <<>>
    /\ filteredData = <<>>
    /\ loading = TRUE
    /\ saving = FALSE
    /\ deleting = FALSE
    /\ editingKey = ""
    /\ queryKeyword = <<>>
    /\ debouncedKeyword = <<>>
    /\ timer = NoTimer
    /\ auth = LoggedIn(Username)
    /\ loginTask = IdleLogin
    /\ hasInitialized = TRUE
    /\ frames = [q \in QueryIds |-> IF q = "ui" THEN ProjectFrame ELSE IdleFrame]
    /\ saveTask = IdleTask
    /\ deleteTask = IdleTask
    /\ insertTask = IdleTask
    /\ lastQuery = NoQuery
    /\ ops = 0

\* decryptAccounts(accounts) is called: an empty list is returned at once,
\* otherwise the passwords go out in one decryptBatch call
ProjectCall ==
    /\ frames["ui"].pc = "project"
    /\ frames' = [frames EXCEPT
                    !["ui"].batches = @ \o batchCalls(cache.accounts),
                    !["ui"].pc = IF Len(cache.accounts) = 0
                                 THEN "projected" ELSE "decryptBatch"]
    /\ UNCHANGED <<variant, locale, auth, loginTask, queryKeyword, debouncedKeyword, timer, hasInitialized, cache, data, filteredData,
                   loading, saving, deleting, editingKey, saveTask, deleteTask,
                   insertTask, lastQuery, ops>>

\* decryptBatch answers: the command rejects, which decryptAccounts passes
\* on to its caller, or it resolves with some entries empty
ProjectAnswer ==
    /\ frames["ui"].pc = "decryptBatch"
    /\ \/ frames' = [frames EXCEPT !["ui"].pc = "rejected"]
       \/ \E empties \in SUBSET (1..Len(cache.accounts)) :
            frames' = [frames EXCEPT
                         !["ui"].decrypted = decryptBatch(cache.accounts, empties),
                         !["ui"].pc = "assign"]
    /\ UNCHANGED <<variant, locale, auth, loginTask, queryKeyword, debouncedKeyword, timer, hasInitialized, cache, data, filteredData,
                   loading, saving, deleting, editingKey, saveTask, deleteTask,
                   insertTask, lastQuery, ops>>

\* decryptAccounts returns accounts.map(...)
ProjectAssign ==
    /\ frames["ui"].pc = "assign"
    /\ frames' = [frames EXCEPT
                    !["ui"].result = assignPasswords(cache.accounts,
                                                     frames["ui"].decrypted),
                    !["ui"].pc = "projected"]
    /\ UNCHANGED <<variant, locale, auth, loginTask, queryKeyword, debouncedKeyword, timer, hasInitialized, cache, data, filteredData,
                   loading, saving, deleting, editingKey, saveTask, deleteTask,
                   insertTask, lastQuery, ops>>

ProjectNext ==
    \/ ProjectCall
    \/ ProjectAnswer
    \/ ProjectAssign

ProjectSpec == ProjectInit /\ [][ProjectNext]_vars

(***************************************************************************)
(* handleSearch on its own: the search effect over every table of up to     *)
(* MaxRows rows and every keyword below.                                     *)
(***************************************************************************)

SearchRow(rid, website, account) ==
    [key |-> ToString(rid), rid |-> rid, website |-> website,
     account |-> account, password |-> "p1"]

\* "b", "aB", the Han character, a website the transliteration fails on,
\* a second "b", the Han character twice, and "a" followed by a character
\* the transliteration fails on
SearchRows ==
    {SearchRow(1, <<LatinB>>, <<LatinA>>),
     SearchRow(2, <<LatinA, UpperB>>, <<LatinB>>),
     SearchRow(3, <<HanBa>>, <<LatinA, LatinA>>),
     SearchRow(4, <<HanBa, Broken>>, <<LatinB, LatinB>>),
     SearchRow(5, <<LatinB>>, <<UpperB>>),
     SearchRow(6, <<HanBa, HanBa>>, <<LatinA, Space, LatinB>>),
     SearchRow(7, <<LatinA, Broken>>, <<LatinB>>)}

\* "", " ", "a", "B", "ba", "a b", "bb", "aa"
Keywords ==
    {<<>>, <<Space>>, <<LatinA>>, <<UpperB>>, <<LatinB, LatinA>>,
     <<LatinA, Space, LatinB>>, <<LatinB, LatinB>>, <<LatinA, LatinA>>}

RECURSIVE RowLists(_)
RowLists(n) ==
    IF n = 0 THEN {<<>>}
    ELSE RowLists(n - 1)
           \cup {Append(l, r) : l \in {x \in RowLists(n - 1) : Len(x) = n - 1},
                                r \in SearchRows}

FilterInit ==
    /\ variant = "tauri"
    /\ locale \in Locales
    /\ cache = NoCache
    /\ data \in RowLists(MaxRows)
    /\ filteredData = <<>>
    /\ loading = FALSE
    /\ saving = FALSE
    /\ deleting = FALSE
    /\ editingKey = ""
    /\ queryKeyword \in Keywords
    /\ debouncedKeyword = queryKeyword
    /\ timer = NoTimer
    /\ auth = LoggedIn(Username)
    /\ loginTask = IdleLogin
    /\ hasInitialized = TRUE
    /\ frames = [q \in QueryIds |-> IdleFrame]
    /\ saveTask = IdleTask
    /\ deleteTask = IdleTask
    /\ insertTask = IdleTask
    /\ lastQuery = NoQuery
    /\ ops = 0

\* the search effect: handleSearch(keyword, data)
FilterSearch ==
    /\ ops = 0
    /\ filteredData' = handleSearch(queryKeyword, data)
    /\ ops' = 1
    /\ UNCHANGED <<variant, locale, auth, loginTask, queryKeyword, debouncedKeyword, timer, hasInitialized, cache, data, loading,
                   saving, deleting, editingKey, frames, saveTask, deleteTask,
                   insertTask, lastQuery>>

\* handleSearch with the same keyword on the rows it produced
FilterAgain ==
    /\ ops = 1
    /\ filteredData' = handleSearch(queryKeyword, filteredData)
    /\ ops' = 2
    /\ UNCHANGED <<variant, locale, auth, loginTask, queryKeyword, debouncedKeyword, timer, hasInitialized, cache, data, loading,
                   saving, deleting, editingKey, frames, saveTask, deleteTask,
                   insertTask, lastQuery>>

FilterNext ==
    \/ FilterSearch
    \/ FilterAgain

FilterSpec == FilterInit /\ [][FilterNext]_vars

(***************************************************************************)
(* The table of part_007 in use: the mount query has pulled a list of at    *)
(* least one record, the backend has stored it, the table shows it, and the *)
(* debounce timer of the mount has fired.  From there the user's next       *)
(* MaxOps actions (edit, cancel, save, delete, refresh, search, insert) are *)
(* followed over every interleaving.                                        *)
(***************************************************************************)

EditInit ==
    /\ variant = "tauri"
    /\ locale \in Locales
    /\ \E t \in 1..MaxTime, accs \in Snapshots \ {<<>>} :
         /\ cache = Snapshot(Username, t, accs)
         /\ data = project(variant, accs, {})
         /\ filteredData = handleSearch(<<>>, project(variant, accs, {}))
    /\ loading = FALSE
    /\ saving = FALSE
    /\ deleting = FALSE
    /\ editingKey = ""
    /\ queryKeyword = <<>>
    /\ debouncedKeyword = <<>>
    /\ timer = NoTimer
    /\ auth = LoggedIn(Username)
    /\ loginTask = IdleLogin
    /\ hasInitialized = TRUE
    /\ frames = [q \in QueryIds |-> IdleFrame]
    /\ saveTask = IdleTask
    /\ deleteTask = IdleTask
    /\ insertTask = IdleTask
    /\ lastQuery = [saves |-> 0, pull |-> "PULL_ALL", msg |-> "success"]
    /\ ops = 0

\* every action of Next that part_007 can take, but the mount effect, which
\* has run
EditNext ==
    \/ \E q \in UiIds : StartQuery(q)
    \/ \E q \in QueryIds : QueryStep(q)
    \/ \E q \in QueryIds : DecryptPulledStep(q)
    \/ SaveClick
    \/ SaveValidated
    \/ SaveUpdated
    \/ \E i \in 1..2 : DeleteClick(i)
    \/ DeleteReturned
    \/ \E i \in 1..2 : Edit(i)
    \/ Cancel
    \/ InsertSubmit
    \/ InsertReturned
    \/ \E k \in TypedKeywords : Keystroke(k)
    \/ Tick
    \/ TimerFires

EditSpec == EditInit /\ [][EditNext]_vars

(***************************************************************************)
(* The generations that pull through axios: unnamed/part_008 (variant =     *)
(* "local"), whose handleQuery reads the watermark through its own          *)
(* getLastUpdateTime wrapper and writes the cache, and unnamed/part_006      *)
(* (variant = "axios"), whose handleQuery asks with update_time 0 and shows  *)
(* the answer without a cache.  Their mount effect, Refresh button, search  *)
(* box and row links (edit, cancel, save, delete) are followed, so that the  *)
(* resync of a mutation can overlap a refresh, and with part_006 the         *)
(* InsertForm over axios of unnamed/part_009.                                *)
(***************************************************************************)

AxiosVariants == {"local", "axios"}

\* the table before its mount effect has run; part_006 has no cache commands,
\* so it runs on an installation without a snapshot
WatermarkInit ==
    /\ variant \in AxiosVariants
    /\ locale \in Locales
    /\ cache \in IF variant = "axios" THEN {NoCache}
                ELSE {NoCache, ForeignSnapshot} \cup PersistedSnapshots(variant)
    /\ data = <<>>
    /\ filteredData = <<>>
    /\ loading = FALSE
    /\ saving = FALSE
    /\ deleting = FALSE
    /\ editingKey = ""
    /\ queryKeyword = <<>>
    /\ debouncedKeyword = <<>>
    /\ timer = NoTimer
    /\ auth = LoggedIn(Username)
    /\ loginTask = IdleLogin
    /\ hasInitialized = FALSE
    /\ frames = [q \in QueryIds |-> IdleFrame]
    /\ saveTask = IdleTask
    /\ deleteTask = IdleTask
    /\ insertTask = IdleTask
    /\ lastQuery = NoQuery
    /\ ops = 0

WatermarkNext ==
    \/ Mount
    \/ \E q \in UiIds : StartQuery(q)
    \/ \E q \in QueryIds : GetLutStep(q)
    \/ \E q \in QueryIds : TokenStep(q)
    \/ \E q \in QueryIds : RequestStep(q)
    \/ \E q \in QueryIds : SaveStep(q)
    \/ \E q \in QueryIds : ReloadStep(q)
    \/ \E q \in QueryIds : DecryptPulledStep(q)
    \/ SaveClick
    \/ SaveValidated
    \/ SaveEncrypted
    \/ UpdateTokenStep
    \/ SaveUpdated
    \/ \E i \in 1..2 : DeleteClick(i)
    \/ DeleteTokenStep
    \/ DeleteReturned
    \/ \E i \in 1..2 : Edit(i)
    \/ Cancel
    \/ InsertSubmit
    \/ InsertEncrypted
    \/ InsertTokenStep
    \/ InsertReturned
    \/ \E k \in TypedKeywords : Keystroke(k)

WatermarkSpec == WatermarkInit /\ [][WatermarkNext]_vars

----------------------------------------------------------------------------
(***************************************************************************)
(* The auth session: the functions AuthProvider of hooks/useAuth.tsx puts   *)
(* into the context (login, logout, checkAuth, clearError) over the        *)
(* wrappers of libs/tauri.ts.  The login command of the backend either     *)
(* resolves with a token or rejects with an Error, a string or some other  *)
(* value.                                                                  *)
(***************************************************************************)

\* what invoke("login") can do: resolve with a token (possibly empty),
\* reject with an Error or a string carrying a message, or with another value
LoginOutcomes ==
    [kind : {"token"}, text : {"t1", ""}]
      \cup [kind : {"Error", "string"}, text : {"bad password", ""}]
      \cup [kind : {"other"}, text : {""}]

\* tauri.ts getErrorMessage
getErrorMessage(error) ==
    IF error.kind \in {"Error", "string"} THEN error.text ELSE "unknown error"

\* tauri.ts login: the token wrapped in data, or code -1 with the message;
\* data is the object {token}, which is there whatever the token is
login(outcome) ==
    IF outcome.kind = "token"
    THEN [code |-> 0, msg |-> "login ok", data |-> TRUE]
    ELSE [code |-> -1, msg |-> getErrorMessage(outcome), data |-> FALSE]

\* response.msg || "登录失败"
errorText(msg) == IF msg = "" THEN "login failed" ELSE msg

\* response.code === 0 && response.data
loginAccepted(resp) == resp.code = 0 /\ resp.data

\* a login whose failure branch also drops the user
afterLoginDropsUser(a, username, resp) ==
    IF loginAccepted(resp)
    THEN [a EXCEPT !.user = username, !.isLoading = FALSE]
    ELSE [a EXCEPT !.user = Null, !.error = errorText(resp.msg),
                   !.isLoading = FALSE]

\* AuthProvider.login after api.login answered: setUser on success, setError
\* otherwise, setIsLoading(false) in the finally block
afterLogin(a, username, resp) ==
    IF loginAccepted(resp)
    THEN [a EXCEPT !.user = username, !.isLoading = FALSE]
    ELSE [a EXCEPT !.error = errorText(resp.msg), !.isLoading = FALSE]

\* AuthProvider.checkAuth up to its first await: setIsLoading(true), then
\* api.verify() is awaited
beginCheck(a) == [a EXCEPT !.isLoading = TRUE]

\* the provider has mounted: its mount effect has called checkAuth
AuthInit ==
    /\ variant = "tauri"
    /\ locale \in Locales
    /\ cache = NoCache
    /\ data = <<>>
    /\ filteredData = <<>>
    /\ loading = FALSE
    /\ saving = FALSE
    /\ deleting = FALSE
    /\ editingKey = ""
    /\ queryKeyword = <<>>
    /\ debouncedKeyword = <<>>
    /\ timer = NoTimer
    /\ auth = beginCheck([user |-> Null, error |-> Null, isLoading |-> FALSE])
    /\ loginTask = [IdleLogin EXCEPT !.checks[1] = "verify"]
    /\ hasInitialized = FALSE
    /\ frames = [q \in QueryIds |-> IdleFrame]
    /\ saveTask = IdleTask
    /\ deleteTask = IdleTask
    /\ insertTask = IdleTask
    /\ lastQuery = NoQuery
    /\ ops = 0

\* the first free activation record of login
freeLogin == CHOOSE i \in LoginIds :
                /\ loginTask.logins[i] = ""
                /\ \A j \in LoginIds : loginTask.logins[j] = "" => i <= j

\* the first free activation record of checkAuth
freeCheck == CHOOSE i \in CheckIds :
                /\ loginTask.checks[i] = "idle"
                /\ \A j \in CheckIds : loginTask.checks[j] = "idle" => i <= j

\* AuthProvider.login up to the await: setIsLoading(true), setError(null),
\* then api.login is awaited
LoginCall(u) ==
    /\ ops < MaxOps
    /\ \E i \in LoginIds : loginTask.logins[i] = ""
    /\ auth' = [auth EXCEPT !.isLoading = TRUE, !.error = Null]
    /\ loginTask' = [loginTask EXCEPT !.logins[freeLogin] = u, !.op = "login"]
    /\ ops' = ops + 1
    /\ UNCHANGED <<variant, locale, cache, data, filteredData, loading, saving,
                   deleting, editingKey, queryKeyword, debouncedKeyword, timer,
                   hasInitialized, frames, saveTask, deleteTask, insertTask,
                   lastQuery>>

\* AuthProvider.login from the answer of api.login to its return
LoginAnswered(i) ==
    /\ loginTask.logins[i] # ""
    /\ \E outcome \in LoginOutcomes :
         LET resp == login(outcome) IN
           /\ auth' = afterLogin(auth, loginTask.logins[i], resp)
           /\ loginTask' = [loginTask EXCEPT
                               !.logins[i] = "",
                               !.returned = [username |-> loginTask.logins[i],
                                             resp |-> resp,
                                             result |-> loginAccepted(resp)]]
    /\ UNCHANGED <<variant, locale, cache, data, filteredData, loading, saving,
                   deleting, editingKey, queryKeyword, debouncedKeyword, timer,
                   hasInitialized, frames, saveTask, deleteTask, insertTask,
                   lastQuery, ops>>

\* AuthProvider.checkAuth is called through the context
CheckAuthCall ==
    /\ ops < MaxOps
    /\ \E i \in CheckIds : loginTask.checks[i] = "idle"
    /\ auth' = beginCheck(auth)
    /\ loginTask' = [loginTask EXCEPT !.checks[freeCheck] = "verify",
                                      !.op = "checkAuth"]
    /\ ops' = ops + 1
    /\ UNCHANGED <<variant, locale, cache, data, filteredData, loading, saving,
                   deleting, editingKey, queryKeyword, debouncedKeyword, timer,
                   hasInitialized, frames, saveTask, deleteTask, insertTask,
                   lastQuery>>

\* checkAuth after api.verify(): an invalid token ends it with setUser(null)
\* and the finally block, a valid one goes on to api.getUsername()
CheckAuthVerified(i) ==
    /\ loginTask.checks[i] = "verify"
    /\ \E isValid \in BOOLEAN :
         IF isValid
         THEN /\ loginTask' = [loginTask EXCEPT !.checks[i] = "getUsername"]
              /\ UNCHANGED auth
         ELSE /\ loginTask' = [loginTask EXCEPT !.checks[i] = "idle"]
              /\ auth' = [auth EXCEPT !.user = Null, !.isLoading = FALSE]
    /\ UNCHANGED <<variant, locale, cache, data, filteredData, loading, saving,
                   deleting, editingKey, queryKeyword, debouncedKeyword, timer,
                   hasInitialized, frames, saveTask, deleteTask, insertTask,
                   lastQuery, ops>>

\* checkAuth after api.getUsername(): null or "" gives setUser(null), a name
\* gives setUser({username}); setIsLoading(false) in the finally block
CheckAuthNamed(i) ==
    /\ loginTask.checks[i] = "getUsername"
    /\ \E username \in {Null, "", Username} :
         auth' = [auth EXCEPT
                    !.user = IF username \in {Null, ""} THEN Null ELSE username,
                    !.isLoading = FALSE]
    /\ loginTask' = [loginTask EXCEPT !.checks[i] = "idle"]
    /\ UNCHANGED <<variant, locale, cache, data, filteredData, loading, saving,
                   deleting, editingKey, queryKeyword, debouncedKeyword, timer,
                   hasInitialized, frames, saveTask, deleteTask, insertTask,
                   lastQuery, ops>>

\* AuthProvider.logout: setUser(null), setError(null)
Logout ==
    /\ ops < MaxOps
    /\ auth' = [auth EXCEPT !.user = Null, !.error = Null]
    /\ loginTask' = [loginTask EXCEPT !.op = "logout"]
    /\ ops' = ops + 1
    /\ UNCHANGED <<variant, locale, cache, data, filteredData, loading, saving,
                   deleting, editingKey, queryKeyword, debouncedKeyword, timer,
                   hasInitialized, frames, saveTask, deleteTask, insertTask,
                   lastQuery>>

\* AuthProvider.clearError: setError(null)
ClearError ==
    /\ ops < MaxOps
    /\ auth' = [auth EXCEPT !.error = Null]
    /\ loginTask' = [loginTask EXCEPT !.op = "clearError"]
    /\ ops' = ops + 1
    /\ UNCHANGED <<variant, locale, cache, data, filteredData, loading, saving,
                   deleting, editingKey, queryKeyword, debouncedKeyword, timer,
                   hasInitialized, frames, saveTask, deleteTask, insertTask,
                   lastQuery>>

AuthNext ==
    \/ \E u \in {Username, OtherUser} : LoginCall(u)
    \/ \E i \in LoginIds : LoginAnswered(i)
    \/ Logout
    \/ ClearError
    \/ CheckAuthCall
    \/ \E i \in CheckIds : CheckAuthVerified(i)
    \/ \E i \in CheckIds : CheckAuthNamed(i)

AuthSpec == AuthInit /\ [][AuthNext]_vars

----------------------------------------------------------------------------
(* Properties *)

\* handleQuery call q returns in this step
returned(q) == frames[q].pc # "idle" /\ frames'[q].pc = "idle"

\* the record ids of a list of rows or accounts, in order
rids(rows) == [i \in 1..Len(rows) |-> rows[i].rid]

\* the snapshot the store holds for the session's user
owned(c) == load_query_cache(c, Username)

\* the records accs of a snapshot as the remote side sent them, without the
\* user name stored with each
asPulled(accs) ==
    [i \in 1..Len(accs) |->
        [rid |-> accs[i].rid, website |-> accs[i].website,
         account |-> accs[i].account, password |-> accs[i].password]]

\* the ids the table shows for the accounts accs
shownFor(accs) ==
    rids(searchEffect(variant, searchKeyword(variant), project(variant, accs, {})))

\* C1: a handleQuery(false) that found a snapshot with at least one account
\* in the cache issues no remote query, whatever the decryption answers.
C1_CacheHitStaysLocal ==
    \A q \in QueryIds :
        (frames[q].pc # "idle" /\ ~frames[q].force /\ frames[q].cacheHit)
            => (frames[q].remote = 0 /\ frames[q].pc \notin {"query", "getLut", "token", "request"})

\* C2: once the update call of save has returned, with code 0 or not, save
\* has started exactly one handleQuery(true), and it returns with exactly one.
C2_SaveResyncOnce ==
    /\ (saveTask.called /\ saveTask.pc \in {"query", "done"}) => saveTask.queries = 1
    /\ (saveTask.called /\ saveTask.pc = "query")
           => (frames["save"].pc # "idle" /\ frames["save"].force)

C2_Witness ==
    /\ saveTask.pc = "done" /\ saveTask.called
    /\ saveTask.code # 0 /\ saveTask.queries = 1

\* C3: once the delete call of handleDelete has returned, with code 0 or
\* not, handleDelete has started exactly one handleQuery(true).
C3_DeleteResyncOnce ==
    (deleteTask.called /\ deleteTask.pc \in {"query", "done"}) => deleteTask.queries = 1

\* C4: once the insert call has returned, with code 0 or not, the insert
\* handler has started exactly one forced query before it returns.
C4_InsertResyncOnce ==
    (insertTask.called /\ insertTask.pc = "done") => insertTask.queries = 1

\* C5: no step of a handleQuery call whose pull reported PULL_NOTHING changes
\* the cache: watermark and records stay as they were.
C5_NoChangeKeepsCache ==
    [][\A q \in QueryIds :
          (/\ frames'[q] # frames[q]
           /\ \/ pullKind(frames[q].resp) = "PULL_NOTHING"
              \/ pullKind(frames'[q].resp) = "PULL_NOTHING"
              \/ returned(q) /\ lastQuery'.pull = "PULL_NOTHING")
              => cache' = cache]_vars

C5_Witness ==
    \E q \in QueryIds :
        /\ frames[q].force /\ frames[q].pc = "reload" /\ frames[q].saves = 1
        /\ pullKind(frames[q].resp) = "PULL_NOTHING"
        /\ nonEmpty(owned(cache))

\* the cache write of call q is applied in this step, for a pull that
\* reported PULL_ALL with a watermark above the stored one
fullReplaceStep(q) ==
    /\ frames[q].pc = "save" /\ frames'[q].pc = "reload"
    /\ frames[q].force
    /\ pullKind(frames[q].resp) = "PULL_ALL"
    /\ getLastUpdateTime(owned(cache)) < frames[q].resp.update_time

\* C6: when the cache write of a forced query is over whose pull reported
\* PULL_ALL with watermark W2 and records R, above the stored watermark, the
\* cache holds for the user exactly W2 and exactly the records R.
C6_AlwaysReplaced ==
    [][\A q \in QueryIds :
          fullReplaceStep(q)
              => /\ owned(cache').present
                 /\ owned(cache').update_time = frames[q].resp.update_time
                 /\ asPulled(owned(cache').accounts) = frames[q].resp.accounts]_vars

\* C7: when a forced query returns after a pull that reported PULL_NOTHING,
\* the table shows the projection of the snapshot in the cache; a cache with
\* accounts is never shown as an empty list.
C7_NoChangeShowsCache ==
    [][\A q \in QueryIds :
          (returned(q) /\ frames[q].force /\ lastQuery'.pull = "PULL_NOTHING")
              => /\ rids(filteredData') = shownFor(owned(cache').accounts)
                 /\ nonEmpty(owned(cache')) => filteredData' # <<>>]_vars

\* C8: the resync of save and of handleDelete runs only after the mutation
\* call has completed, and while it runs the handler has not resolved: the
\* saving / deleting flag is cleared only when the resync has finished.
C8_ResyncOrdered ==
    /\ frames["save"].pc # "idle" => (saving /\ saveTask.pc = "query")
    /\ frames["delete"].pc # "idle" => (deleting /\ deleteTask.pc = "query")
    /\ saveTask.pc \in {"validate", "encrypt", "token", "update"}
           => (saving /\ frames["save"].pc = "idle")
    /\ deleteTask.pc \in {"token", "delete"}
           => (deleting /\ frames["delete"].pc = "idle")
    /\ saveTask.pc \in {"idle", "done"} => ~saving
    /\ deleteTask.pc \in {"idle", "done"} => ~deleting

C8_Witness ==
    /\ frames["save"].pc \notin {"idle", remoteEntry(variant)}
    /\ saveTask.called /\ saveTask.code # 0
    /\ saving

\* C9: a handleQuery call whose pull failed returns without having called
\* saveQueryCache, leaves the cache as it was and shows an error message.
C9_FailedPullKeepsCache ==
    [][\A q \in QueryIds :
          (returned(q) /\ lastQuery'.pull = "failed")
              => /\ cache' = cache
                 /\ lastQuery'.saves = 0
                 /\ lastQuery'.msg = "error"]_vars

C9_Witness ==
    /\ lastQuery.pull = "failed" /\ lastQuery.msg = "error" /\ lastQuery.saves = 0
    /\ nonEmpty(owned(cache))
    /\ data # <<>>

\* C10: a response with code 0 whose data lacks pull_mode, update_time or
\* accounts never reaches saveQueryCache, and the call ends with an error.
C10_MalformedNeverSaved ==
    /\ \A q \in QueryIds :
           frames[q].saves > 0 => pullKind(frames[q].resp) # "partial"
    /\ lastQuery.pull \in {"partial", "nodata"}
           => (lastQuery.saves = 0 /\ lastQuery.msg = "error")


\* the list decryptAccounts was given in ProjectSpec
projectInput == cache.accounts

\* C11 as claimed: for every N >= 0 decryptAccounts makes exactly one
\* decryptBatch call with the N passwords in input order and returns N
\* records that keep rid, website and account.
C11_OneBatchAlways ==
    frames["ui"].pc \in {"decryptBatch", "assign", "projected", "rejected"}
        => /\ frames["ui"].batches = <<[i \in 1..Len(projectInput) |->
                                          projectInput[i].password]>>
           /\ frames["ui"].pc = "projected"
                  => Len(frames["ui"].result) = Len(projectInput)

\* C11 amended: for N >= 1 decryptAccounts makes exactly one decryptBatch
\* call with the N passwords in input order, for N = 0 it makes none; in both
\* cases it returns N records, record i with the rid, website and account of
\* input i.
C11_OneBatchUnlessEmpty ==
    frames["ui"].pc \in {"decryptBatch", "assign", "projected", "rejected"}
        => /\ frames["ui"].batches =
                  IF Len(projectInput) = 0 THEN <<>>
                  ELSE <<[i \in 1..Len(projectInput) |-> projectInput[i].password]>>
           /\ frames["ui"].pc = "projected"
                  => /\ Len(frames["ui"].result) = Len(projectInput)
                     /\ \A i \in 1..Len(projectInput) :
                           /\ frames["ui"].result[i].rid = projectInput[i].rid
                           /\ frames["ui"].result[i].website = projectInput[i].website
                           /\ frames["ui"].result[i].account = projectInput[i].account

C11_Witness ==
    /\ frames["ui"].pc = "projected"
    /\ projectInput = <<Rec2, Rec1>>
    /\ frames["ui"].batches = <<<<"ENC2", "ENC1">>>>
    /\ frames["ui"].result[1].password = "p2"

\* C12: whether the decryption rejects or comes back empty for some records,
\* the projection ends with one record per input record, an affected record
\* carrying its ciphertext; it is never aborted.
C12_FallbackNeverAborts ==
    frames["ui"].pc \in {"projected", "rejected"}
        => /\ frames["ui"].pc = "projected"
           /\ Len(frames["ui"].result) = Len(projectInput)
           /\ \A i \in 1..Len(projectInput) :
                 frames["ui"].result[i].password =
                     IF frames["ui"].decrypted[i] = ""
                     THEN projectInput[i].password
                     ELSE frames["ui"].decrypted[i]


\* C13: the password field of an update or insert request in flight is what
\* encrypt made of the user's input, never the input; after a failed encrypt
\* no request is in flight.
C13_EncryptedBeforeSend ==
    variant = "api" =>
        /\ saveTask.pc \in {"token", "update"}
               => /\ saveTask.password = Cipher(saveTask.input)
                  /\ saveTask.password # saveTask.input
        /\ insertTask.pc \in {"token", "insert"}
               => /\ insertTask.password = Cipher(insertTask.input)
                  /\ insertTask.password # insertTask.input
        /\ (saveTask.code = -1 /\ ~saveTask.called)
               => (saveTask.pc # "update" /\ saveTask.password = "")
        /\ (insertTask.code = -1 /\ ~insertTask.called)
               => (insertTask.pc # "insert" /\ insertTask.password = "")

C13_Witness ==
    /\ variant = "api"
    /\ saveTask.pc = "update"
    /\ saveTask.input = "p2" /\ saveTask.password = "ENC2"

\* C14: the cache holds passwords only as ciphertext: the records handed to
\* saveQueryCache carry the passwords as the server sent them, and no
\* decrypted value reaches the cache.
C14_CacheHoldsCiphertext ==
    /\ \A i \in 1..Len(cache.accounts) : cache.accounts[i].password \in Ciphertexts
    /\ \A q \in QueryIds :
           frames[q].pc = "save"
               => LET pulled == frames[q].resp.accounts
                      handed == saveArgs(frames[q].resp, frames[q].user).accounts
                  IN  /\ Len(handed) = Len(pulled)
                      /\ \A i \in 1..Len(pulled) :
                            handed[i].password = pulled[i].password

C14_Witness ==
    /\ \E q \in QueryIds : frames[q].pc = "reload" /\ frames[q].saves = 1
    /\ cache = Snapshot(Username, 1, persisted(variant, <<Rec1, Rec2>>, Username))
    /\ Len(data) = 2 /\ data[1].password = "p1"

\* C15 (owner isolation of the store) is a property of the backend commands
\* save_query_cache and load_query_cache, which are given no owner by the
\* component; the store above is keyed by the session's user by construction,
\* so the model states nothing about it.

\* rows in website order, as localeCompare orders them
sortedByWebsite(rows) ==
    \A i \in 1..(Len(rows) - 1) : LocaleLeq(rows[i].website, rows[i + 1].website)

\* how often row r occurs in rows
occurrences(r, rows) == Cardinality({i \in 1..Len(rows) : rows[i] = r})

\* C16: applying the filter with the same keyword to its own result changes
\* nothing.
C16_FilterIdempotent ==
    [][(ops = 1 /\ ops' = 2) => filteredData' = filteredData]_vars

C16_Witness ==
    /\ ops = 2
    /\ Trim(queryKeyword) # <<>>
    /\ Len(data) = MaxRows
    /\ Len(filteredData) >= 2
    /\ Len(filteredData) < Len(data)
    /\ filteredData # SubSeq(data, 1, Len(filteredData))

\* C17: with an empty or all-blank keyword the result holds every input row
\* exactly as often as the input does, in ascending website order; with any
\* other keyword the result is in ascending website order too.
C17_EmptyKeywordAllSorted ==
    ops >= 1 =>
        /\ sortedByWebsite(filteredData)
        /\ Trim(queryKeyword) = <<>> =>
               /\ Len(filteredData) = Len(data)
               /\ \A r \in SearchRows :
                      occurrences(r, filteredData) = occurrences(r, data)

C17_Witness ==
    /\ ops = 1
    /\ queryKeyword = <<Space>>
    /\ Len(data) = MaxRows
    /\ filteredData # data
    /\ \E i \in 1..Len(data) : occurrences(data[i], data) = 2

\* C18: with a keyword that is not blank a row is in the result exactly when
\* the lower-cased keyword is in its lower-cased website, in the website's
\* transliteration joined without or with blanks, or in its initials; a row
\* whose account alone holds the keyword is left out.
C18_MatchOnWebsiteOnly ==
    (ops = 1 /\ Trim(queryKeyword) # <<>>) =>
        \A r \in SearchRows :
            LET k == toLowerCase(queryKeyword)
                w == r.website
                byText == includes(toLowerCase(w), k)
                byPinyin == /\ ~pinyinThrows(w)
                            /\ \/ includes(toLowerCase(websitePinyin(w)), k)
                               \/ includes(toLowerCase(websitePinyinWithSpace(w)), k)
                byInitials == /\ ~pinyinThrows(w)
                              /\ includes(toLowerCase(pinyinInitials(w)), k)
            IN  occurrences(r, filteredData) =
                    IF byText \/ byPinyin \/ byInitials
                    THEN occurrences(r, data) ELSE 0

C18_Witness ==
    /\ ops = 1
    /\ queryKeyword = <<LatinB, LatinB>>
    /\ \E i \in 1..Len(data) :
          /\ includes(toLowerCase(data[i].account), queryKeyword)
          /\ occurrences(data[i], filteredData) = 0
    /\ \E i \in 1..Len(filteredData) :
          ~includes(toLowerCase(filteredData[i].website), queryKeyword)

\* C19: the call the mount effect makes is a passive one: with a usable
\* snapshot of the current user in the cache, the load that follows the
\* mount never asks the remote side.
C19_MountIsPassive ==
    [][(/\ hasInitialized
        /\ ops = 1
        /\ frames["ui"].pc # "idle"
        /\ nonEmpty(owned(cache)))
          => frames'["ui"].remote = frames["ui"].remote]_vars

\* C20: the update time stored for the current user never goes down, whatever
\* queries run and however they overlap.
C20_WatermarkNeverDecreases ==
    [][variant = "api"
          => getLastUpdateTime(owned(cache')) >= getLastUpdateTime(owned(cache))]_vars

\* C21: when two forced queries overlap and both show their pull, then once
\* the second has returned and no call is left in flight the table shows the
\* projection of the snapshot the cache holds.
C21_OverlapShowsCache ==
    [][\A q \in QueryIds :
          (/\ returned(q)
           /\ frames[q].force /\ frames[q].peerDone
           /\ lastQuery'.pull = "PULL_ALL"
           /\ lastQuery'.msg = "success"
           /\ \A p \in QueryIds : frames'[p].pc = "idle")
              => rids(filteredData') = shownFor(owned(cache').accounts)]_vars

\* C22: a pull is sent with the watermark the cache holds for the user at
\* that moment, 0 without a cache, and with no other value.
C22_PullUsesStoredWatermark ==
    [][\A q \in QueryIds :
          (frames[q].pc # "request" /\ frames'[q].pc = "request")
              => frames'[q].lut = getLastUpdateTime(owned(cache'))]_vars

\* the timer of a burst of keystrokes fires in this step
burstFires == timer.left = 0 /\ timer.burst >= 1 /\ timer'.left = -1

\* C23 as claimed, for part_007: the debounced keyword changes only when the
\* timer of the last keystroke has run out, every burst changes it, exactly
\* once, to the value of its last keystroke, and the filter runs with no
\* other keyword.
C23_BurstChangesOnce ==
    [][variant = "tauri" =>
       /\ debouncedKeyword' # debouncedKeyword
            => (timer.left = 0 /\ debouncedKeyword' = queryKeyword)
       /\ burstFires
            => (debouncedKeyword' # debouncedKeyword /\ debouncedKeyword' = queryKeyword)
       /\ filteredData' # filteredData
            => filteredData' = handleSearch(debouncedKeyword', data')]_vars

\* C23 amended, for part_007: the debounced keyword changes only when the
\* timer of the last keystroke has run out; a burst sets it once, to the
\* value of its last keystroke, which is a change unless that value is the
\* one it had before the burst; the filter runs with no other keyword.
C23_BurstSetsOnce ==
    [][variant = "tauri" =>
       /\ debouncedKeyword' # debouncedKeyword
            => (timer.left = 0 /\ debouncedKeyword' = queryKeyword)
       /\ burstFires => debouncedKeyword' = queryKeyword
       /\ filteredData' # filteredData
            => filteredData' = handleSearch(debouncedKeyword', data')]_vars

C23_Witness ==
    /\ variant = "tauri"
    /\ timer.left = -1 /\ timer.burst = 2
    /\ queryKeyword = <<LatinB>>
    /\ debouncedKeyword = queryKeyword
    /\ Len(data) = 2 /\ Len(filteredData) = 1

\* C26: with no debounce timer pending the table shows the rows of data
\* filtered by the keyword in the search box and sorted by website, also
\* after a handleQuery call has stored an unsorted list.
C26_ShownIsFilteredData ==
    timer.left = -1 => filteredData = handleSearch(queryKeyword, data)

\* a query has stored two rows after "b" was typed and debounced: only the
\* row with "b" is shown
C26_Witness ==
    /\ variant = "tauri"
    /\ timer.left = -1 /\ timer.burst >= 1
    /\ queryKeyword = <<LatinB>>
    /\ lastQuery.msg = "success"
    /\ rids(data) = <<1, 2>>
    /\ rids(filteredData) = <<1>>

\* C24: when the transliteration throws for a row, that row is in the result
\* exactly when the lower-cased keyword is in its lower-cased website, and
\* every other row of the input is still matched as usual.
C24_ThrowKeepsOthers ==
    (/\ ops = 1 /\ Trim(queryKeyword) # <<>>
     /\ \E i \in 1..Len(data) : pinyinThrows(data[i].website)) =>
        \A r \in SearchRows :
            LET k == toLowerCase(queryKeyword)
                w == r.website
                kept == IF pinyinThrows(w)
                        THEN includes(toLowerCase(w), k)
                        ELSE \/ includes(toLowerCase(w), k)
                             \/ includes(toLowerCase(websitePinyin(w)), k)
                             \/ includes(toLowerCase(websitePinyinWithSpace(w)), k)
                             \/ includes(toLowerCase(pinyinInitials(w)), k)
            IN  occurrences(r, filteredData) = IF kept THEN occurrences(r, data) ELSE 0

C24_Witness ==
    /\ ops = 1
    /\ queryKeyword = <<LatinA>>
    /\ Len(data) = MaxRows
    /\ data[1].website = <<HanBa, Broken>>
    /\ data[2].website = <<LatinA, Broken>>
    /\ data[3].website = <<HanBa>>
    /\ rids(filteredData) = <<7, 3>>

\* C25: a save whose form validated always goes on to the remote update
\* call, whether or not data still holds the edited row: save leaves the wait
\* for validateFields only through the catch block, which resyncs, or
\* towards the update call, never by returning on its own, and the call
\* carries the rid of the row the save was confirmed on.
C25_SaveForwardsUnchecked ==
    [][/\ saveTask.pc = "validate"
            => saveTask'.pc \in {"validate", "encrypt", "update", "query"}
       /\ (/\ saveTask.pc \in {"validate", "encrypt", "token"}
           /\ saveTask'.pc \in {"encrypt", "token", "update"})
            => (saveTask'.rid = saveTask.rid /\ saveTask'.rid # 0)]_vars

\* a save was confirmed on a row, a refresh then showed a list without that
\* row, the form validated, and the update call is out with the rid of the
\* row that data no longer holds
C25_Witness ==
    /\ saveTask.pc = "update"
    /\ saveTask.rid # 0
    /\ \A i \in 1..Len(data) : data[i].rid # saveTask.rid
    /\ lastQuery.msg = "success"
    /\ Len(data) >= 1

\* C27: while at least one handleQuery call is in flight, loading is true.
C27_LoadingWhileInFlight ==
    (\E q \in QueryIds : frames[q].pc # "idle") => loading

\* C28: saving and deleting are never both true, save and handleDelete are
\* never both running, and a save or a delete starts only when no save and
\* no delete, the forced resync included, is still running.
C28_OneMutationAtATime ==
    [][/\ ~(saving' /\ deleting')
       /\ ~(saveTask'.pc \notin {"idle", "done"} /\ deleteTask'.pc \notin {"idle", "done"})
       /\ (\/ saveTask' # saveTask /\ saveTask'.pc = "validate"
           \/ deleteTask' # deleteTask /\ deleteTask'.pc = deleteEntry(variant))
            => /\ ~saving /\ ~deleting
               /\ saveTask.pc \in {"idle", "done"}
               /\ deleteTask.pc \in {"idle", "done"}
               /\ frames["save"].pc = "idle"
               /\ frames["delete"].pc = "idle"]_vars

\* the update of a save has succeeded and its resync is running: rows are
\* shown, no row is being edited, no delete is running, and the user has an
\* action left to try on the row links, which only the saving flag disables
C28_Witness ==
    /\ saving /\ saveTask.pc = "query"
    /\ frames["save"].pc \notin {"idle", remoteEntry(variant)}
    /\ editingKey = "" /\ ~deleting
    /\ Len(filteredData) >= 1
    /\ saveTask.code = 0
    /\ ops < MaxOps

\* C29: a handleQuery call that ends in failure (the query answered with a
\* non-zero code, or something threw) leaves data and filteredData as they
\* were, shows an error message and resets loading.
C29_FailureKeepsTable ==
    [][\A q \in QueryIds :
          (/\ returned(q)
           /\ lastQuery'.pull = "failed" \/ lastQuery'.msg = "error")
              => /\ data' = data
                 /\ filteredData' = filteredData
                 /\ lastQuery'.msg = "error"
                 /\ ~loading']_vars

C29_Witness ==
    /\ variant = "tauri"
    /\ lastQuery.msg = "error" /\ lastQuery.pull = "PULL_ALL"
    /\ data # <<>> /\ filteredData # <<>>
    /\ ~loading
    /\ \A q \in QueryIds : frames[q].pc = "idle"


\* C30: when login returns, it returns true with user set to the submitted
\* username exactly if the backend answered code 0 with data, and otherwise
\* returns false with user as it was and a non-null error; isLoading is
\* false on either path; logout leaves user and error null.
C30_AuthSession ==
    [][ /\ \A i \in LoginIds :
             (loginTask.logins[i] # "" /\ loginTask'.logins[i] = "") =>
                /\ loginTask'.returned.username = loginTask.logins[i]
                /\ loginTask'.returned.result =
                     (loginTask'.returned.resp.code = 0
                        /\ loginTask'.returned.resp.data)
                /\ loginTask'.returned.result
                     => auth'.user = loginTask.logins[i]
                /\ ~loginTask'.returned.result
                     => (auth'.user = auth.user /\ auth'.error # Null)
                /\ auth'.isLoading = FALSE
        /\ (loginTask'.op = "logout" /\ ops' = ops + 1) =>
             auth'.user = Null /\ auth'.error = Null ]_vars

\* login(alice) was accepted and login(bob), called in the same session,
\* failed: alice is still the user, with the error of the failed login
C30_Witness ==
    /\ loginTask.returned.username = OtherUser
    /\ ~loginTask.returned.result
    /\ \A i \in LoginIds : loginTask.logins[i] = ""
    /\ auth.user = Username
    /\ auth.error # Null
    /\ ~auth.isLoading

====
